---- MODULE Spec2Model ----
\* ROT500K family (PhonoShift / KanaShift): the keystream-driven rotation
\* engine of src/ports/python/phonoshift.py and src/src-python/kanashift.py
\* and the verification layer (KT / KP / KV) built on it.
\*
\* A text is a sequence of Unicode scalars, each scalar its code point (what
\* Python's ord() returns), so that ord/chr arithmetic, range tests and the
\* alphabets' orders are the code's.  hashlib.pbkdf2_hmac and hmac.new are
\* library code outside the repository: their outputs are the oracle
\* variables prf and hm, drawn in the initial states, read by every call.
EXTENDS Integers, Sequences, FiniteSets, TLC

VARIABLES
    mode,               \* the mode of do_encode / do_decode: which encoder and decoder run
    pc,                 \* "start" -> "encoded" [-> "tampered"] -> "decoded": the last step
    text,               \* the caller's plaintext
    password,           \* str
    salt,               \* str
    iterations,         \* int
    check_chars,        \* int (check_chars_per_token)
    shift_punctuation,  \* bool
    prf,                \* PBKDF2-HMAC-SHA256 oracle: <<password, salt, iterations>> -> leading bytes
    hm,                 \* HMAC-SHA256 oracle: key -> seed bytes (see hmac_sha256_bytes)
    enc,                \* what the encoder returned
    err,                \* TRUE iff the encoder raised ValueError
    dec,                \* what the decoder returned
    enc2,               \* what a second rot500kv call on enc returned
    tamper              \* what was changed between encoder and decoder ("none" at first)

vars == <<mode, pc, text, password, salt, iterations, check_chars, shift_punctuation,
          prf, hm, enc, err, dec, enc2, tamper>>

\* the parameters of a call other than its text
params == <<password, salt, iterations, check_chars, shift_punctuation>>

\* the two library oracles
oracles == <<prf, hm>>

\* ---------------------------------------------------------------------
\* Bounds of the model
\* ---------------------------------------------------------------------

\* longest plaintext of the base-mode specifications
MaxLen == 2

\* longest plaintext of the verified-mode specifications
MaxTagLen == 3

\* ---------------------------------------------------------------------
\* Python primitives
\* ---------------------------------------------------------------------

Max(a, b) == IF a >= b THEN a ELSE b

Min(a, b) == IF a <= b THEN a ELSE b

\* str.find(ch) for a one-scalar ch: 0-based index of the first hit, or -1
Find(set_chars, ch) ==
    IF \E i \in 1..Len(set_chars) : set_chars[i] = ch
    THEN (CHOOSE i \in 1..Len(set_chars) :
              /\ set_chars[i] = ch
              /\ \A j \in 1..(i - 1) : set_chars[j] # ch) - 1
    ELSE -1

\* `ch in s` for a one-scalar ch
In(ch, s) == \E i \in 1..Len(s) : s[i] = ch

\* all sequences over S of length 0..n
SeqsUpTo(S, n) == UNION {[1..k -> S] : k \in 0..n}

\* ---------------------------------------------------------------------
\* Alphabets (code points, in the source's order)
\* ---------------------------------------------------------------------

\* "aeiou"
VOW_LO == <<97, 101, 105, 111, 117>>

\* "bcdfghjklmnpqrstvwxyz"
CON_LO == <<98, 99, 100, 102, 103, 104, 106, 107, 108, 109, 110,
            112, 113, 114, 115, 116, 118, 119, 120, 121, 122>>

\* "áàâãäéèêëíìîïóòôõöúùûü"
VOW_LO_PT == <<225, 224, 226, 227, 228, 233, 232, 234, 235, 237, 236,
               238, 239, 243, 242, 244, 245, 246, 250, 249, 251, 252>>

\* "ÁÀÂÃÄÉÈÊËÍÌÎÏÓÒÔÕÖÚÙÛÜ"
VOW_UP_PT == <<193, 192, 194, 195, 196, 201, 200, 202, 203, 205, 204,
               206, 207, 211, 210, 212, 213, 214, 218, 217, 219, 220>>

\* "ç"
CON_LO_PT == <<231>>

\* "Ç"
CON_UP_PT == <<199>>

\* "¿¡"
P_OPEN == <<191, 161>>

\* mutant: the closing marks are "!" and the separator "-"
P_END_with_separator == <<33, 45>>

\* "!?"
P_END == <<33, 63>>

\* ---------------------------------------------------------------------
\* Core helpers (phonoshift.py 20-69; kanashift.py holds the same code)
\* ---------------------------------------------------------------------

\* " ", "-", "'"
is_separator(ch) == ch \in {32, 45, 39}

is_digit(ch) == 48 <= ch /\ ch <= 57

is_ascii_upper(ch) == 65 <= ch /\ ch <= 90

is_ascii_lower(ch) == 97 <= ch /\ ch <= 122

\* chr(ord(ch) | 0x20): bit 5 is clear in every code point of 'A'..'Z'
to_lower_ascii(ch) == IF is_ascii_upper(ch) THEN ch + 32 ELSE ch

\* chr(ord(ch) & ~0x20): bit 5 is set in every code point of 'a'..'z'
to_upper_ascii(ch) == IF is_ascii_lower(ch) THEN ch - 32 ELSE ch

\* mutant: the zero residue is bumped to +1 whatever the sign of shift
effective_shift_unsigned(shift, set_size) ==
    IF set_size <= 1 THEN 0
    ELSE LET m == shift % set_size
         IN  IF m = 0 THEN 1 ELSE m

effective_shift(shift, set_size) ==
    IF set_size <= 1 THEN 0
    ELSE LET m == shift % set_size
         IN  IF m = 0 THEN (IF shift >= 0 THEN 1 ELSE -1) ELSE m

\* mutant: the residue of the shift is used as it is, zero included
rotate_in_set_no_zero_plain(set_chars, ch, shift) ==
    LET n   == Len(set_chars)
        idx == Find(set_chars, ch)
    IN  IF idx < 0 THEN ch
        ELSE set_chars[((idx + (shift % n)) % n) + 1]

rotate_in_set_no_zero(set_chars, ch, shift) ==
    LET n   == Len(set_chars)
        idx == Find(set_chars, ch)
    IN  IF idx < 0 THEN ch
        ELSE set_chars[((idx + effective_shift(shift, n)) % n) + 1]

\* The first need_bytes (at least 32) bytes of the PBKDF2 stream of
\* (password, salt, max(1, iterations)), as a function on 0..len-1.  The
\* oracle prf holds the leading bytes of each stream; the bytes after them
\* repeat them (no call of the model reads past the bytes prf holds).
derive_keystream(pw, slt, iters, need_bytes) ==
    LET n  == IF need_bytes < 32 THEN 32 ELSE need_bytes
        st == prf[<<pw, slt, Max(1, iters)>>]
    IN  [i \in 0..(n - 1) |-> st[(i % Len(st)) + 1]]

\* len(ks)
KsLen(ks) == Cardinality(DOMAIN ks)

\* ---------------------------------------------------------------------
\* PhonoShift core transform (phonoshift.py 71-137)
\* ---------------------------------------------------------------------

\* mutant: the rotated letter is not put back in upper case
PhonoScalar_nocase(c, shift) ==
    IF is_digit(c)
    THEN LET d  == c - 48
             nd == (d + (shift % 10) + 10) % 10
         IN  48 + nd
    ELSE
    LET lc == IF is_ascii_upper(c) THEN to_lower_ascii(c) ELSE c
    IN  IF In(lc, VOW_LO) THEN rotate_in_set_no_zero(VOW_LO, lc, shift)
        ELSE IF In(lc, CON_LO) THEN rotate_in_set_no_zero(CON_LO, lc, shift)
        ELSE IF In(c, VOW_LO_PT) THEN rotate_in_set_no_zero(VOW_LO_PT, c, shift)
        ELSE IF In(c, VOW_UP_PT) THEN rotate_in_set_no_zero(VOW_UP_PT, c, shift)
        ELSE IF In(c, CON_LO_PT) THEN rotate_in_set_no_zero(CON_LO_PT, c, shift)
        ELSE IF In(c, CON_UP_PT) THEN rotate_in_set_no_zero(CON_UP_PT, c, shift)
        ELSE c

\* one non-separator scalar c under shift: lines 98-135
PhonoScalar(c, shift) ==
    IF is_digit(c)
    THEN LET d  == c - 48
             nd == (d + (shift % 10) + 10) % 10
         IN  48 + nd
    ELSE
    LET upper == is_ascii_upper(c) \/ In(c, VOW_UP_PT) \/ In(c, CON_UP_PT)
        lc    == IF is_ascii_upper(c) THEN to_lower_ascii(c) ELSE c
    IN  IF In(lc, VOW_LO)
        THEN LET ch == rotate_in_set_no_zero(VOW_LO, lc, shift)
             IN  IF upper THEN to_upper_ascii(ch) ELSE ch
        ELSE IF In(lc, CON_LO)
        THEN LET ch == rotate_in_set_no_zero(CON_LO, lc, shift)
             IN  IF upper THEN to_upper_ascii(ch) ELSE ch
        ELSE IF In(c, VOW_LO_PT) THEN rotate_in_set_no_zero(VOW_LO_PT, c, shift)
        ELSE IF In(c, VOW_UP_PT) THEN rotate_in_set_no_zero(VOW_UP_PT, c, shift)
        ELSE IF In(c, CON_LO_PT) THEN rotate_in_set_no_zero(CON_LO_PT, c, shift)
        ELSE IF In(c, CON_UP_PT) THEN rotate_in_set_no_zero(CON_UP_PT, c, shift)
        ELSE c

\* the loop of lines 88-135 from scalar i on, the cursor at kpos
RECURSIVE PhonoLoop(_, _, _, _, _, _)
PhonoLoop(s, ks, n, kpos, direction, i) ==
    IF i > Len(s) THEN <<>>
    ELSE IF is_separator(s[i])
    THEN <<s[i]>> \o PhonoLoop(s, ks, n, kpos, direction, i + 1)
    ELSE LET shift == (ks[kpos] + 1) * direction
             k1    == kpos + 1
             k2    == IF k1 >= n THEN 0 ELSE k1
         IN  <<PhonoScalar(s[i], shift)>> \o PhonoLoop(s, ks, n, k2, direction, i + 1)

transform_name_name_like_fpe(s, pw, iters, slt, direction) ==
    IF s = <<>> THEN s
    ELSE LET ks == derive_keystream(pw, slt, iters, Len(s) + 64)
         IN  PhonoLoop(s, ks, KsLen(ks), 0, direction, 1)

\* ---------------------------------------------------------------------
\* Latin punctuation shifting (phonoshift.py 144-177)
\* ---------------------------------------------------------------------

is_shift_punct(ch) == In(ch, P_OPEN) \/ In(ch, P_END)

RECURSIVE PunctLoop(_, _, _, _, _, _)
PunctLoop(s, ks, n, kpos, direction, i) ==
    IF i > Len(s) THEN <<>>
    ELSE IF ~is_shift_punct(s[i])
    THEN <<s[i]>> \o PunctLoop(s, ks, n, kpos, direction, i + 1)
    ELSE LET shift == (ks[kpos] + 1) * direction
             k1    == kpos + 1
             k2    == IF k1 >= n THEN 0 ELSE k1
             o     == IF In(s[i], P_OPEN)
                      THEN rotate_in_set_no_zero(P_OPEN, s[i], shift)
                      ELSE rotate_in_set_no_zero(P_END, s[i], shift)
         IN  <<o>> \o PunctLoop(s, ks, n, k2, direction, i + 1)

punct_shift_apply(s, pw, iters, slt, direction) ==
    IF s = <<>> THEN s
    ELSE LET need == Len(SelectSeq(s, is_shift_punct))
         IN  IF need = 0 THEN s
             ELSE LET punct_salt == slt \o "|PunctShift:v1"
                      ks == derive_keystream(pw, punct_salt, iters, need + 64)
                  IN  PunctLoop(s, ks, KsLen(ks), 0, direction, 1)

\* ---------------------------------------------------------------------
\* Public API: ROT500K base (phonoshift.py 184-194)
\* ---------------------------------------------------------------------

rot500k_encrypt(name, pw, iters, slt, shift_punct) ==
    LET r == transform_name_name_like_fpe(name, pw, iters, slt, 1)
    IN  IF shift_punct THEN punct_shift_apply(r, pw, iters, slt, 1) ELSE r

rot500k_decrypt(obfuscated, pw, iters, slt, shift_punct) ==
    LET s == IF shift_punct
             THEN punct_shift_apply(obfuscated, pw, iters, slt, -1)
             ELSE obfuscated
    IN  transform_name_name_like_fpe(s, pw, iters, slt, -1)

\* ---------------------------------------------------------------------
\* HMAC helper (phonoshift.py 201-202, kanashift.py 78-79)
\* ---------------------------------------------------------------------

\* a number that depends on every scalar of the sequence t and on its order
RECURSIVE TextMix(_, _, _)
TextMix(t, i, h) ==
    IF i > Len(t) THEN h
    ELSE TextMix(t, i + 1, (h * 31 + t[i] + 1) % 256)

\* The 32 bytes of HMAC-SHA256(key_str, msg_str), as a function on 0..31.
\* The message f"{domain}|{salt}|{iterations}|...rest" is the tuple msg:
\* msg[1..3] are domain, salt and iterations as the f-string prints them,
\* then come the token index (KT only) and the plaintext scalars.  The digest
\* is a fixed function of key and message: the oracle hm gives the seed
\* bytes of <<key, domain, salt, iterations>>, and index and text move
\* every byte.
hmac_sha256_bytes(key_str, msg) ==
    LET seed == hm[<<key_str, msg[1], msg[2], msg[3]>>]
        mix  == IF Len(msg) = 5 THEN TextMix(msg[5], 1, (7 * msg[4] + 1) % 256)
                ELSE TextMix(msg[4], 1, 3)
    IN  [j \in 0..31 |-> (seed[(j % Len(seed)) + 1] + (j + 1) * mix) % 256]

\* ---------------------------------------------------------------------
\* ROT500KT: token-verified (phonoshift.py 209-375)
\* ---------------------------------------------------------------------

\* " ", "-", "'", ".", ",", "!", "?", ":", ";", "\t", "\n", "\r"
TOKEN_SEPS == {32, 45, 39, 46, 44, 33, 63, 58, 59, 9, 10, 13}

is_token_sep(ch) == ch \in TOKEN_SEPS

is_all_digits_str(s) == s # <<>> /\ \A i \in 1..Len(s) : is_digit(s[i])

\* FALSE at the first 'a'..'z'; otherwise whether an 'A'..'Z' was seen
is_all_upper_ascii(s) ==
    /\ \A i \in 1..Len(s) : ~(97 <= s[i] /\ s[i] <= 122)
    /\ \E i \in 1..Len(s) : 65 <= s[i] /\ s[i] <= 90

\* "bcdfghjklmnpqrstvwxyz"
CONSET == <<98, 99, 100, 102, 103, 104, 106, 107, 108, 109, 110,
            112, 113, 114, 115, 116, 118, 119, 120, 121, 122>>

token_digest(pw, slt, iters, token_index, token_plain) ==
    hmac_sha256_bytes(pw, <<"PhonoShiftTok:v1", slt, iters, token_index, token_plain>>)

\* (i * 7) & 31 is (i * 7) % 32; ch.upper() is applied to a letter of CONSET
make_token_check(token_plain, kind, mac_bytes, check_chars_per_token) ==
    LET n          == Max(1, check_chars_per_token)
        upper_mode == (kind = "alpha") /\ is_all_upper_ascii(token_plain)
    IN  [k \in 1..n |->
            LET b == mac_bytes[((k - 1) * 7) % 32]
            IN  IF kind = "digits" THEN 48 + (b % 10)
                ELSE LET ch == CONSET[(b % Len(CONSET)) + 1]
                     IN  IF upper_mode THEN to_upper_ascii(ch) ELSE ch]

\* flush() of build_plain_token_checks: the checks after the pending token tok
PlainFlush(tok, tok_idx, checks, pw, slt, iters, n) ==
    IF tok = <<>> THEN checks
    ELSE LET kind == IF is_all_digits_str(tok) THEN "digits" ELSE "alpha"
             mac  == token_digest(pw, slt, iters, tok_idx, tok)
         IN  Append(checks, make_token_check(tok, kind, mac, n))

\* the loop of build_plain_token_checks from scalar i on; Len(checks) is tok_idx
RECURSIVE PlainChecksLoop(_, _, _, _, _, _, _, _)
PlainChecksLoop(plain, i, tok, checks, pw, slt, iters, n) ==
    IF i > Len(plain) THEN PlainFlush(tok, Len(checks), checks, pw, slt, iters, n)
    ELSE IF is_token_sep(plain[i])
    THEN PlainChecksLoop(plain, i + 1, <<>>,
                         PlainFlush(tok, Len(checks), checks, pw, slt, iters, n),
                         pw, slt, iters, n)
    ELSE PlainChecksLoop(plain, i + 1, Append(tok, plain[i]), checks, pw, slt, iters, n)

build_plain_token_checks(plain, pw, slt, iters, check_chars_per_token) ==
    PlainChecksLoop(plain, 1, <<>>, <<>>, pw, slt, iters, check_chars_per_token)

\* A call that may raise ValueError returns [raised, value].
Raised == [raised |-> TRUE, value |-> <<>>]

Returned(v) == [raised |-> FALSE, value |-> v]

\* the loop of attach_checks_to_cipher from scalar i on, is_token_sep being
\* membership in seps; out is the text built so far
RECURSIVE AttachLoop(_, _, _, _, _, _, _)
AttachLoop(seps, cipher, checks, i, tok, tok_idx, out) ==
    IF i > Len(cipher)
    THEN IF tok = <<>>
         THEN IF tok_idx # Len(checks) THEN Raised ELSE Returned(out)
         ELSE IF tok_idx >= Len(checks) THEN Raised
         ELSE IF tok_idx + 1 # Len(checks) THEN Raised
         ELSE Returned(out \o tok \o checks[tok_idx + 1])
    ELSE IF cipher[i] \in seps
    THEN IF tok = <<>>
         THEN AttachLoop(seps, cipher, checks, i + 1, <<>>, tok_idx, Append(out, cipher[i]))
         ELSE IF tok_idx >= Len(checks) THEN Raised
         ELSE AttachLoop(seps, cipher, checks, i + 1, <<>>, tok_idx + 1,
                         Append(out \o tok \o checks[tok_idx + 1], cipher[i]))
    ELSE AttachLoop(seps, cipher, checks, i + 1, Append(tok, cipher[i]), tok_idx, out)

attach_checks_to_cipher(cipher, checks) ==
    AttachLoop(TOKEN_SEPS, cipher, checks, 1, <<>>, 0, <<>>)

\* strip_checks_from_tagged returns None or the pair (base, given)
NoneStripped == [none |-> TRUE, base |-> <<>>, given |-> <<>>]

\* t[-n:] and t[:-n] for 0 < n < len(t)
LastN(t, n) == SubSeq(t, Len(t) - n + 1, Len(t))

ButLastN(t, n) == SubSeq(t, 1, Len(t) - n)

\* the loop of strip_checks_from_tagged from scalar i on, is_token_sep being
\* membership in seps
RECURSIVE StripLoop(_, _, _, _, _, _, _)
StripLoop(seps, tagged, n, i, tok, base, given) ==
    IF i > Len(tagged)
    THEN IF tok = <<>> THEN [none |-> FALSE, base |-> base, given |-> given]
         ELSE IF Len(tok) <= n THEN NoneStripped
         ELSE [none |-> FALSE, base |-> base \o ButLastN(tok, n),
               given |-> Append(given, LastN(tok, n))]
    ELSE IF tagged[i] \in seps
    THEN IF tok = <<>>
         THEN StripLoop(seps, tagged, n, i + 1, <<>>, Append(base, tagged[i]), given)
         ELSE IF Len(tok) <= n THEN NoneStripped
         ELSE StripLoop(seps, tagged, n, i + 1, <<>>,
                        Append(base \o ButLastN(tok, n), tagged[i]),
                        Append(given, LastN(tok, n)))
    ELSE StripLoop(seps, tagged, n, i + 1, Append(tok, tagged[i]), base, given)

\* mutant: n is not clamped to at least 1
strip_checks_from_tagged_raw(tagged, check_chars_per_token) ==
    StripLoop(TOKEN_SEPS, tagged, check_chars_per_token, 1, <<>>, <<>>, <<>>)

strip_checks_from_tagged(tagged, check_chars_per_token) ==
    StripLoop(TOKEN_SEPS, tagged, Max(1, check_chars_per_token), 1, <<>>, <<>>, <<>>)

rot500k_token_tagged(name, pw, iters, slt, check_chars_per_token, shift_punct) ==
    LET cipher == transform_name_name_like_fpe(name, pw, iters, slt, 1)
        checks == build_plain_token_checks(name, pw, slt, iters, check_chars_per_token)
        out    == attach_checks_to_cipher(cipher, checks)
    IN  IF out.raised THEN Raised
        ELSE IF shift_punct
        THEN Returned(punct_shift_apply(out.value, pw, iters, slt, 1))
        ELSE out

VerifiedResult(ok, value) == [ok |-> ok, value |-> value]

\* mutant: a check mismatch gives back the text that failed verification
rot500k_token_tagged_decrypt_leaky(tagged, pw, iters, slt, check_chars_per_token, shift_punct) ==
    LET s == IF shift_punct THEN punct_shift_apply(tagged, pw, iters, slt, -1) ELSE tagged
        stripped == strip_checks_from_tagged(s, check_chars_per_token)
    IN  IF stripped.none THEN VerifiedResult(FALSE, <<>>)
        ELSE LET plain    == transform_name_name_like_fpe(stripped.base, pw, iters, slt, -1)
                 expected == build_plain_token_checks(plain, pw, slt, iters, check_chars_per_token)
             IN  IF Len(expected) # Len(stripped.given) THEN VerifiedResult(FALSE, <<>>)
                 ELSE IF \E k \in 1..Len(expected) : expected[k] # stripped.given[k]
                 THEN VerifiedResult(FALSE, plain)
                 ELSE VerifiedResult(TRUE, plain)

rot500k_token_tagged_decrypt(tagged, pw, iters, slt, check_chars_per_token, shift_punct) ==
    LET s == IF shift_punct THEN punct_shift_apply(tagged, pw, iters, slt, -1) ELSE tagged
        stripped == strip_checks_from_tagged(s, check_chars_per_token)
    IN  IF stripped.none THEN VerifiedResult(FALSE, <<>>)
        ELSE LET plain    == transform_name_name_like_fpe(stripped.base, pw, iters, slt, -1)
                 expected == build_plain_token_checks(plain, pw, slt, iters, check_chars_per_token)
             IN  IF Len(expected) # Len(stripped.given) THEN VerifiedResult(FALSE, <<>>)
                 ELSE IF \E k \in 1..Len(expected) : expected[k] # stripped.given[k]
                 THEN VerifiedResult(FALSE, <<>>)
                 ELSE VerifiedResult(TRUE, plain)

\* ---------------------------------------------------------------------
\* ROT500KP: prefix-verified (phonoshift.py 382-501)
\* ---------------------------------------------------------------------

ROT500K_TAG_DOMAIN == "PhonoShiftTag:v1"

\* "áàâãäéèêëíìîïóòôõöúùûüÁÀÂÃÄÉÈÊËÍÌÎÏÓÒÔÕÖÚÙÛÜçÇ"
PT_LETTERS ==
    <<225, 224, 226, 227, 228, 233, 232, 234, 235, 237, 236, 238, 239,
      243, 242, 244, 245, 246, 250, 249, 251, 252,
      193, 192, 194, 195, 196, 201, 200, 202, 203, 205, 204, 206, 207,
      211, 210, 212, 213, 214, 218, 217, 219, 220, 231, 199>>

only_letters_ascii_or_pt(c) ==
    is_ascii_upper(c) \/ is_ascii_lower(c) \/ In(c, PT_LETTERS)

detect_case_style(plain) ==
    LET letters   == SelectSeq(plain, only_letters_ascii_or_pt)
        has_letter == letters # <<>>
        any_upper == \E i \in 1..Len(letters) : ~is_ascii_lower(letters[i])
        any_lower == \E i \in 1..Len(letters) : ~is_ascii_upper(letters[i])
    IN  IF ~has_letter THEN "title"
        ELSE IF any_upper /\ ~any_lower THEN "upper"
        ELSE IF any_lower /\ ~any_upper THEN "lower"
        ELSE "title"

\* w is made of the ASCII letters of CSet and VSet, on which str.upper and
\* str.lower are the ASCII case maps
apply_case_style_to_word(w, style) ==
    IF w = <<>> THEN w
    ELSE IF style = "upper" THEN [i \in 1..Len(w) |-> to_upper_ascii(w[i])]
    ELSE IF style = "lower" THEN [i \in 1..Len(w) |-> to_lower_ascii(w[i])]
    ELSE [i \in 1..Len(w) |->
             IF i = 1 THEN to_upper_ascii(to_lower_ascii(w[i])) ELSE to_lower_ascii(w[i])]

\* phrase.split(" "), starting at scalar i with the word cur under way
RECURSIVE SplitSpaces(_, _, _, _)
SplitSpaces(phrase, i, cur, parts) ==
    IF i > Len(phrase) THEN Append(parts, cur)
    ELSE IF phrase[i] = 32 THEN SplitSpaces(phrase, i + 1, <<>>, Append(parts, cur))
    ELSE SplitSpaces(phrase, i + 1, Append(cur, phrase[i]), parts)

\* " ".join(parts[k..])
RECURSIVE JoinSpaces(_, _)
JoinSpaces(parts, k) ==
    IF k > Len(parts) THEN <<>>
    ELSE IF k = Len(parts) THEN parts[k]
    ELSE parts[k] \o <<32>> \o JoinSpaces(parts, k + 1)

apply_case_style_to_phrase(phrase, style) ==
    LET parts == SplitSpaces(phrase, 1, <<>>, <<>>)
    IN  JoinSpaces([k \in 1..Len(parts) |-> apply_case_style_to_word(parts[k], style)], 1)

\* CSet + VSet of syllable i = 0..syllables-1, flattened
make_pronounceable_word_from_bytes(mac, offset, syllables) ==
    [k \in 1..(2 * syllables) |->
        LET i == (k - 1) \div 2
            x == mac[(offset + i) % 32]
        IN  IF k % 2 = 1 THEN CON_LO[(x % Len(CON_LO)) + 1]
            ELSE VOW_LO[((x \div Len(CON_LO)) % Len(VOW_LO)) + 1]]

\* ["? ", "! "][mac[0] % 2]
pick_punct_from_bytes(mac) ==
    IF mac[0] % 2 = 0 THEN <<63, 32>> ELSE <<33, 32>>

build_tag_prefix_for_plaintext(plain, pw, iters, slt) ==
    LET mac    == hmac_sha256_bytes(pw, <<ROT500K_TAG_DOMAIN, slt, iters, plain>>)
        w1     == make_pronounceable_word_from_bytes(mac, 1, 3)
        w2     == make_pronounceable_word_from_bytes(mac, 4, 3)
        phrase == w1 \o <<32>> \o w2
        punct  == pick_punct_from_bytes(mac)
        style  == detect_case_style(plain)
    IN  apply_case_style_to_phrase(phrase, style) \o punct

\* None of split_tagged_prefix
NoSplit == [none |-> TRUE, prefix |-> <<>>, cipher |-> <<>>]

\* the positions i with tagged[i] in ("?", "!") and tagged[i + 1] == " "
SplitPoints(tagged) ==
    {i \in 1..(Len(tagged) - 1) : tagged[i] \in {63, 33} /\ tagged[i + 1] = 32}

\* mutant: splits at the last "? " or "! " instead of the first
split_tagged_prefix_last(tagged) ==
    IF SplitPoints(tagged) = {} THEN NoSplit
    ELSE LET i      == CHOOSE m \in SplitPoints(tagged) : \A o \in SplitPoints(tagged) : m >= o
             cipher == SubSeq(tagged, i + 2, Len(tagged))
         IN  IF cipher # <<>>
             THEN [none |-> FALSE, prefix |-> SubSeq(tagged, 1, i), cipher |-> cipher]
             ELSE NoSplit

split_tagged_prefix(tagged) ==
    IF SplitPoints(tagged) = {} THEN NoSplit
    ELSE LET i      == CHOOSE m \in SplitPoints(tagged) : \A o \in SplitPoints(tagged) : m <= o
             cipher == SubSeq(tagged, i + 2, Len(tagged))
         IN  IF cipher # <<>>
             THEN [none |-> FALSE, prefix |-> SubSeq(tagged, 1, i), cipher |-> cipher]
             ELSE NoSplit

rot500k_prefix_tagged(name, pw, iters, slt, shift_punct) ==
    LET cipher == transform_name_name_like_fpe(name, pw, iters, slt, 1)
        prefix == build_tag_prefix_for_plaintext(name, pw, iters, slt)
        out    == prefix \o cipher
    IN  IF shift_punct THEN punct_shift_apply(out, pw, iters, slt, 1) ELSE out

\* mutant: the mark that ends the prefix is not compared
rot500k_prefix_tagged_decrypt_anymark(tagged, pw, iters, slt, shift_punct) ==
    LET s      == IF shift_punct THEN punct_shift_apply(tagged, pw, iters, slt, -1) ELSE tagged
        parsed == split_tagged_prefix(s)
    IN  IF parsed.none THEN VerifiedResult(FALSE, <<>>)
        ELSE LET plain    == transform_name_name_like_fpe(parsed.cipher, pw, iters, slt, -1)
                 expected == build_tag_prefix_for_plaintext(plain, pw, iters, slt)
             IN  IF SubSeq(expected, 1, Len(expected) - 2)
                        # SubSeq(parsed.prefix, 1, Len(parsed.prefix) - 1)
                 THEN VerifiedResult(FALSE, <<>>)
                 ELSE VerifiedResult(TRUE, plain)

rot500k_prefix_tagged_decrypt(tagged, pw, iters, slt, shift_punct) ==
    LET s      == IF shift_punct THEN punct_shift_apply(tagged, pw, iters, slt, -1) ELSE tagged
        parsed == split_tagged_prefix(s)
    IN  IF parsed.none THEN VerifiedResult(FALSE, <<>>)
        ELSE LET plain    == transform_name_name_like_fpe(parsed.cipher, pw, iters, slt, -1)
                 expected == build_tag_prefix_for_plaintext(plain, pw, iters, slt)
                 expected_no_space == SubSeq(expected, 1, Len(expected) - 1)
             IN  IF expected_no_space # parsed.prefix THEN VerifiedResult(FALSE, <<>>)
                 ELSE VerifiedResult(TRUE, plain)

\* ---------------------------------------------------------------------
\* ROT500KV: verified auto-select (phonoshift.py 508-651)
\* ---------------------------------------------------------------------

\* { } [ ] " \ < > space = :
STRUCTURED_DELIMITERS == {123, 125, 91, 93, 34, 92, 60, 62, 32, 61, 58}

contains_structured_delimiters(s) ==
    \E i \in 1..Len(s) : s[i] \in STRUCTURED_DELIMITERS

\* the tokens of s in order: the maximal runs of scalars that are not
\* is_token_sep, as the scans of count_tokens_simple, min_token_len_simple
\* and looks_like_kt_token_tagged delimit them
RECURSIVE TokenScan(_, _, _, _)
TokenScan(s, i, tok, toks) ==
    IF i > Len(s) THEN (IF tok = <<>> THEN toks ELSE Append(toks, tok))
    ELSE IF is_token_sep(s[i])
    THEN TokenScan(s, i + 1, <<>>, IF tok = <<>> THEN toks ELSE Append(toks, tok))
    ELSE TokenScan(s, i + 1, Append(tok, s[i]), toks)

count_tokens_simple(s) == Len(TokenScan(s, 1, <<>>, <<>>))

min_token_len_simple(s) ==
    LET toks == TokenScan(s, 1, <<>>, <<>>)
    IN  IF toks = <<>> THEN 0
        ELSE CHOOSE m \in {Len(toks[k]) : k \in 1..Len(toks)} :
                 \A k \in 1..Len(toks) : m <= Len(toks[k])

\* mutant: a token as long as the check is long enough
should_use_token_tagged_ge(plain, check_chars_per_token) ==
    LET n == Max(1, check_chars_per_token)
    IN  /\ ~contains_structured_delimiters(plain)
        /\ count_tokens_simple(plain) >= 2
        /\ min_token_len_simple(plain) >= n
        /\ Len(plain) >= 6

should_use_token_tagged(plain, check_chars_per_token) ==
    LET n == Max(1, check_chars_per_token)
    IN  /\ ~contains_structured_delimiters(plain)
        /\ count_tokens_simple(plain) >= 2
        /\ min_token_len_simple(plain) > n
        /\ Len(plain) >= 6

\* " \t\r\n"
STRIP_CHARS == {32, 9, 13, 10}

\* s.strip(" \t\r\n")
Strip(s) ==
    LET keep == {i \in 1..Len(s) : s[i] \notin STRIP_CHARS}
    IN  IF keep = {} THEN <<>>
        ELSE SubSeq(s, CHOOSE a \in keep : \A o \in keep : a <= o,
                       CHOOSE b \in keep : \A o \in keep : b >= o)

is_ascii_letter(ch) == is_ascii_upper(ch) \/ is_ascii_lower(ch)

is_consonant_ascii(ch) ==
    LET low == IF is_ascii_upper(ch) THEN to_lower_ascii(ch) ELSE ch
    IN  In(low, CON_LO)

looks_like_kp_prefix_at_start(x) ==
    LET hits == {i \in 1..Min(Len(x) - 1, 49) : x[i] \in {63, 33} /\ x[i + 1] = 32}
    IN  IF hits = {} THEN FALSE
        ELSE LET i == CHOOSE m \in hits : \A o \in hits : m <= o
             IN  /\ \E p \in 1..(i - 1) : x[p] = 32
                 /\ \A p \in 1..(i - 1) : is_ascii_letter(x[p]) \/ x[p] \in {32, 45, 39}

\* finish(): whether the token t counts as good
GoodToken(t, N) ==
    /\ Len(t) > N
    /\ LET suf == LastN(t, N)
       IN  \/ \A k \in 1..Len(suf) : is_digit(suf[k])
           \/ \A k \in 1..Len(suf) : is_consonant_ascii(suf[k])

looks_like_kt_token_tagged(x, N) ==
    LET toks  == TokenScan(x, 1, <<>>, <<>>)
        total == Len(toks)
        good  == Cardinality({k \in 1..total : GoodToken(toks[k], N)})
    IN  IF total < 2 THEN FALSE
        ELSE (good * 100) \div total >= 70

looks_like_rot500k_cipher(s, check_chars_per_token) ==
    LET N       == Max(1, check_chars_per_token)
        trimmed == Strip(s)
    IN  IF s = <<>> THEN FALSE
        ELSE IF trimmed = <<>> THEN FALSE
        ELSE looks_like_kp_prefix_at_start(trimmed) \/ looks_like_kt_token_tagged(trimmed, N)

rot500kv_safe_encrypt(name, pw, iters, slt, check_chars_per_token, shift_punct) ==
    IF should_use_token_tagged(name, check_chars_per_token)
    THEN rot500k_token_tagged(name, pw, iters, slt, check_chars_per_token, shift_punct)
    ELSE Returned(rot500k_prefix_tagged(name, pw, iters, slt, shift_punct))

\* mutant: only the KT decoder is tried
rot500kv_safe_decrypt_ktonly(obfuscated, pw, iters, slt, check_chars_per_token, shift_punct) ==
    LET kt == rot500k_token_tagged_decrypt(obfuscated, pw, iters, slt,
                                           check_chars_per_token, shift_punct)
    IN  IF kt.ok THEN kt ELSE VerifiedResult(FALSE, <<>>)

rot500kv_safe_decrypt(obfuscated, pw, iters, slt, check_chars_per_token, shift_punct) ==
    LET kt == rot500k_token_tagged_decrypt(obfuscated, pw, iters, slt,
                                           check_chars_per_token, shift_punct)
        kp == rot500k_prefix_tagged_decrypt(obfuscated, pw, iters, slt, shift_punct)
    IN  IF kt.ok THEN kt
        ELSE IF kp.ok THEN kp
        ELSE VerifiedResult(FALSE, <<>>)

\* step 0 of rot500kv: the input looks like a cipher and decrypts
RefusesDoubleEncrypt(name, pw, iters, slt, check_chars_per_token, shift_punct) ==
    /\ looks_like_rot500k_cipher(name, check_chars_per_token)
    /\ rot500kv_safe_decrypt(name, pw, iters, slt, check_chars_per_token, shift_punct).ok

\* step 1 of rot500kv: eff after adaptive hardening
EffectiveCheckChars(name, check_chars_per_token) ==
    LET e1 == Max(1, check_chars_per_token)
        e2 == IF Len(name) < 12 THEN Max(e1, 2) ELSE e1
    IN  IF Len(name) < 6 THEN Max(e2, 3) ELSE e2

rot500kv(name, pw, iters, slt, check_chars_per_token, shift_punct) ==
    IF RefusesDoubleEncrypt(name, pw, iters, slt, check_chars_per_token, shift_punct)
    THEN Returned(rot500kv_safe_decrypt(name, pw, iters, slt,
                                        check_chars_per_token, shift_punct).value)
    ELSE rot500kv_safe_encrypt(name, pw, iters, slt,
                               EffectiveCheckChars(name, check_chars_per_token), shift_punct)

rot500kv_decrypt(obfuscated, pw, iters, slt, check_chars_per_token, shift_punct) ==
    rot500kv_safe_decrypt(obfuscated, pw, iters, slt, check_chars_per_token, shift_punct)

\* ---------------------------------------------------------------------
\* kanashift.py: helpers that phonoshift.py does not have
\* ---------------------------------------------------------------------

\* "０" <= ch <= "９"
is_fullwidth_digit(ch) == 65296 <= ch /\ ch <= 65305

rotate_in_set_allow_zero(set_chars, ch, shift) ==
    LET n   == Len(set_chars)
        idx == Find(set_chars, ch)
    IN  IF idx < 0 THEN ch
        ELSE set_chars[((idx + (shift % n)) % n) + 1]

\* pbkdf2_keystream is derive_keystream under another name (kanashift.py 67-76)
pbkdf2_keystream(pw, slt, iters, need_bytes) ==
    derive_keystream(pw, slt, iters, need_bytes)

\* ---------------------------------------------------------------------
\* Punctuation translation ASCII <-> fullwidth (kanashift.py 86-107)
\* ---------------------------------------------------------------------

\* _PUNCT_ENC_MAP as <<key, value>> pairs:  ? ! , . : ; ( ) [ ] { } "
PUNCT_ENC_MAP ==
    << <<63, 65311>>, <<33, 65281>>, <<44, 12289>>, <<46, 12290>>,
       <<58, 65306>>, <<59, 65307>>, <<40, 65288>>, <<41, 65289>>,
       <<91, 65339>>, <<93, 65341>>, <<123, 65371>>, <<125, 65373>>,
       <<34, 65282>> >>

\* _PUNCT_DEC_MAP = {v: k for k, v in _PUNCT_ENC_MAP.items()}
PUNCT_DEC_MAP == [i \in 1..Len(PUNCT_ENC_MAP) |-> <<PUNCT_ENC_MAP[i][2], PUNCT_ENC_MAP[i][1]>>]

\* mp.get(c, c); a later pair of the same key overwrites an earlier one
MapGet(mp, c) ==
    IF \E i \in 1..Len(mp) : mp[i][1] = c
    THEN mp[CHOOSE i \in 1..Len(mp) :
                /\ mp[i][1] = c
                /\ \A j \in (i + 1)..Len(mp) : mp[j][1] # c][2]
    ELSE c

\* mutant: a mark of the table is written as the mark followed by a space
punct_translate_spaced(s, direction) ==
    IF s = <<>> THEN s
    ELSE LET mp == IF direction > 0 THEN PUNCT_ENC_MAP ELSE PUNCT_DEC_MAP
         IN  IF MapGet(mp, s[Len(s)]) # s[Len(s)]
             THEN [i \in 1..Len(s) |-> MapGet(mp, s[i])] \o <<32>>
             ELSE [i \in 1..Len(s) |-> MapGet(mp, s[i])]

punct_translate(s, direction) ==
    IF s = <<>> THEN s
    ELSE LET mp == IF direction > 0 THEN PUNCT_ENC_MAP ELSE PUNCT_DEC_MAP
         IN  [i \in 1..Len(s) |-> MapGet(mp, s[i])]

\* ---------------------------------------------------------------------
\* Keyed JP punctuation shifting (kanashift.py 114-145)
\* ---------------------------------------------------------------------

\* "！？"  (P_END of kanashift.py)
P_END_JP == <<65281, 65311>>

\* "、。・"
P_MID == <<12289, 12290, 12539>>

\* _is_shift_punct of kanashift.py
is_shift_punct_jp(ch) == In(ch, P_END_JP) \/ In(ch, P_MID)

RECURSIVE PunctLoopJP(_, _, _, _, _, _)
PunctLoopJP(s, ks, n, kpos, direction, i) ==
    IF i > Len(s) THEN <<>>
    ELSE IF ~is_shift_punct_jp(s[i])
    THEN <<s[i]>> \o PunctLoopJP(s, ks, n, kpos, direction, i + 1)
    ELSE LET shift == (ks[kpos] % 256) * direction
             k1    == kpos + 1
             k2    == IF k1 >= n THEN 0 ELSE k1
             o     == IF In(s[i], P_END_JP)
                      THEN rotate_in_set_no_zero(P_END_JP, s[i], shift)
                      ELSE rotate_in_set_no_zero(P_MID, s[i], shift)
         IN  <<o>> \o PunctLoopJP(s, ks, n, k2, direction, i + 1)

\* punct_shift_apply of kanashift.py
punct_shift_apply_jp(s, pw, iters, slt, direction) ==
    IF s = <<>> THEN s
    ELSE LET need == Len(SelectSeq(s, is_shift_punct_jp))
         IN  IF need = 0 THEN s
             ELSE LET ks == pbkdf2_keystream(pw, slt \o "|PunctShiftJP:v2", iters, need + 64)
                  IN  PunctLoopJP(s, ks, KsLen(ks), 0, direction, 1)

\* ---------------------------------------------------------------------
\* Family A: kana skin (kanashift.py 153-290)
\* ---------------------------------------------------------------------

\* "aeiou"
P_VOW_LO == <<97, 101, 105, 111, 117>>

\* "AEIOU"
P_VOW_UP == <<65, 69, 73, 79, 85>>

\* "bcdfghjklmnpqrstvwxyz"
P_CON_LO == <<98, 99, 100, 102, 103, 104, 106, 107, 108, 109, 110,
              112, 113, 114, 115, 116, 118, 119, 120, 121, 122>>

\* "BCDFGHJKLMNPQRSTVWXYZ"
P_CON_UP == <<66, 67, 68, 70, 71, 72, 74, 75, 76, 77, 78,
              80, 81, 82, 83, 84, 86, 87, 88, 89, 90>>

\* "áàâãäéèêëíìîïóòôõöúùûü"
P_VOW_LO_PT == <<225, 224, 226, 227, 228, 233, 232, 234, 235, 237, 236,
                 238, 239, 243, 242, 244, 245, 246, 250, 249, 251, 252>>

\* "ÁÀÂÃÄÉÈÊËÍÌÎÏÓÒÔÕÖÚÙÛÜ"
P_VOW_UP_PT == <<193, 192, 194, 195, 196, 201, 200, 202, 203, 205, 204,
                 206, 207, 211, 210, 212, 213, 214, 218, 217, 219, 220>>

\* "ゞ" for 'ç' and "ヾ" for 'Ç', as one-scalar strings
C_CED_LO == <<12446>>

C_CED_UP == <<12542>>

\* "あいうえお"
C_VOW_LO == <<12354, 12356, 12358, 12360, 12362>>

\* "さしすせそたちつてとなにぬねのはひふへほま"
C_CON_LO == <<12373, 12375, 12377, 12379, 12381, 12383, 12385, 12388,
              12390, 12392, 12394, 12395, 12396, 12397, 12398, 12399,
              12402, 12405, 12408, 12411, 12414>>

\* "アイウエオ"
C_VOW_UP == <<12450, 12452, 12454, 12456, 12458>>

\* "サシスセソタチツテトナニヌネノハヒフヘホマ"
C_CON_UP == <<12469, 12471, 12473, 12475, 12477, 12479, 12481, 12484,
              12486, 12488, 12490, 12491, 12492, 12493, 12494, 12495,
              12498, 12501, 12504, 12507, 12510>>

\* "かきくけこみむめもやゆよらりるれろわをんゐゑゔゝ"
C_ACC_LO == <<12363, 12365, 12367, 12369, 12371, 12415, 12416, 12417,
              12418, 12420, 12422, 12424, 12425, 12426, 12427, 12428,
              12429, 12431, 12434, 12435, 12432, 12433, 12436, 12445>>

\* "カキクケコミムメモヤユヨラリルレロワヲンヰヱヴヽ"
C_ACC_UP == <<12459, 12461, 12463, 12465, 12467, 12511, 12512, 12513,
              12514, 12516, 12518, 12520, 12521, 12522, 12523, 12524,
              12525, 12527, 12530, 12531, 12528, 12529, 12532, 12541>>

\* Python's None where a scalar is expected
None == -1

\* `x or c`: c when x is None
Or(x, c) == IF x = None THEN c ELSE x

\* map_rotate answering from the plain alphabet in both directions
map_rotate_plain(plain_set, cipher_set, ch, shift, dirn) ==
    LET n == Len(plain_set)
    IN  IF n <= 1 THEN None
        ELSE LET idx == IF dirn > 0 THEN Find(plain_set, ch) ELSE Find(cipher_set, ch)
             IN  IF idx < 0 THEN None
                 ELSE plain_set[((idx + (shift % n)) % n) + 1]

map_rotate(plain_set, cipher_set, ch, shift, dirn) ==
    LET n == Len(plain_set)
    IN  IF n <= 1 THEN None
        ELSE LET idx == IF dirn > 0 THEN Find(plain_set, ch) ELSE Find(cipher_set, ch)
             IN  IF idx < 0 THEN None
                 ELSE LET j == (idx + (shift % n)) % n
                      IN  IF dirn > 0 THEN cipher_set[j + 1] ELSE plain_set[j + 1]

\* one non-separator scalar c under shift: lines 208-273
SkinScalar(c, shift, direction) ==
    IF direction > 0 /\ is_digit(c)
    THEN LET d  == c - 48
             nd == (d + (shift % 10) + 10) % 10
         IN  65296 + nd
    ELSE IF ~(direction > 0) /\ (is_digit(c) \/ is_fullwidth_digit(c))
    THEN LET d  == IF is_digit(c) THEN c - 48 ELSE c - 65296
             nd == (d + (shift % 10) + 10) % 10
         IN  48 + nd
    ELSE IF direction > 0
    THEN IF In(c, P_VOW_LO) THEN Or(map_rotate(P_VOW_LO, C_VOW_LO, c, shift, 1), c)
         ELSE IF In(c, P_CON_LO) THEN Or(map_rotate(P_CON_LO, C_CON_LO, c, shift, 1), c)
         ELSE IF In(c, P_VOW_UP) THEN Or(map_rotate(P_VOW_UP, C_VOW_UP, c, shift, 1), c)
         ELSE IF In(c, P_CON_UP) THEN Or(map_rotate(P_CON_UP, C_CON_UP, c, shift, 1), c)
         ELSE IF In(c, P_VOW_LO_PT) THEN Or(map_rotate(P_VOW_LO_PT, C_ACC_LO, c, shift, 1), c)
         ELSE IF In(c, P_VOW_UP_PT) THEN Or(map_rotate(P_VOW_UP_PT, C_ACC_UP, c, shift, 1), c)
         ELSE IF c = 231 THEN C_CED_LO[1]
         ELSE IF c = 199 THEN C_CED_UP[1]
         ELSE c
    ELSE IF In(c, C_VOW_LO) THEN Or(map_rotate(P_VOW_LO, C_VOW_LO, c, shift, -1), c)
         ELSE IF In(c, C_CON_LO) THEN Or(map_rotate(P_CON_LO, C_CON_LO, c, shift, -1), c)
         ELSE IF In(c, C_VOW_UP) THEN Or(map_rotate(P_VOW_UP, C_VOW_UP, c, shift, -1), c)
         ELSE IF In(c, C_CON_UP) THEN Or(map_rotate(P_CON_UP, C_CON_UP, c, shift, -1), c)
         ELSE IF In(c, C_ACC_LO) THEN Or(map_rotate(P_VOW_LO_PT, C_ACC_LO, c, shift, -1), c)
         ELSE IF In(c, C_ACC_UP) THEN Or(map_rotate(P_VOW_UP_PT, C_ACC_UP, c, shift, -1), c)
         ELSE IF c = C_CED_LO[1] THEN 231
         ELSE IF c = C_CED_UP[1] THEN 199
         ELSE c

\* the loop of lines 197-273 from scalar i on, the cursor at kpos
RECURSIVE SkinLoop(_, _, _, _, _, _)
SkinLoop(s, ks, n, kpos, direction, i) ==
    IF i > Len(s) THEN <<>>
    ELSE IF is_separator(s[i])
    THEN <<s[i]>> \o SkinLoop(s, ks, n, kpos, direction, i + 1)
    ELSE LET shift == ((ks[kpos] % 256) + 1) * direction
             k1    == kpos + 1
             k2    == IF k1 >= n THEN 0 ELSE k1
         IN  <<SkinScalar(s[i], shift, direction)>>
             \o SkinLoop(s, ks, n, k2, direction, i + 1)

\* _skin_transform
skin_transform(txt, pw, iters, slt, direction) ==
    IF txt = <<>> THEN txt
    ELSE LET ks == pbkdf2_keystream(pw, slt, iters, Len(txt) + 64)
         IN  SkinLoop(txt, ks, KsLen(ks), 0, direction, 1)

kanashift_skin_encrypt(txt, pw, iters, slt, shift_punct) ==
    LET r1 == skin_transform(txt, pw, iters, slt, 1)
        r2 == punct_translate(r1, 1)
    IN  IF shift_punct THEN punct_shift_apply_jp(r2, pw, iters, slt, 1) ELSE r2

kanashift_skin_decrypt(obfuscated, pw, iters, slt, shift_punct) ==
    LET s1 == IF shift_punct
              THEN punct_shift_apply_jp(obfuscated, pw, iters, slt, -1)
              ELSE obfuscated
        s2 == punct_translate(s1, -1)
    IN  skin_transform(s2, pw, iters, slt, -1)

\* ---------------------------------------------------------------------
\* Family B: JP-native (kanashift.py 297-423)
\* ---------------------------------------------------------------------

\* 0x4E00 <= cp <= 0x9FFF
is_kanji(ch) == 19968 <= ch /\ ch <= 40959

rotate_codepoint_range_no_zero(ch, shift, lo, hi) ==
    IF ch < lo \/ ch > hi THEN ch
    ELSE LET n   == hi - lo + 1
             eff == effective_shift(shift, n)
             idx == ch - lo
             j   == (idx + eff) % n
         IN  lo + j

build_kana_set(from_cp, to_cp) == [i \in 1..(to_cp - from_cp + 1) |-> from_cp + i - 1]

\* build_kana_set(0x3041, 0x3096)
JP_HIRA == build_kana_set(12353, 12438)

\* mutant: the katakana set runs on to the middle dot U+30FB
JP_KATA_with_dot == build_kana_set(12449, 12539)

\* build_kana_set(0x30A1, 0x30FA)
JP_KATA == build_kana_set(12449, 12538)

is_hiragana(ch) == 12353 <= ch /\ ch <= 12438

is_katakana(ch) == 12449 <= ch /\ ch <= 12538

\* mutant: the hiragana iteration mark U+309D is not in the tuple
is_stable_jp_mark_short(ch) == ch \in {12540, 12293, 12446, 12541, 12542}

\* "ー", "々", "ゝ", "ゞ", "ヽ", "ヾ"
is_stable_jp_mark(ch) == ch \in {12540, 12293, 12445, 12446, 12541, 12542}

\* str.upper() is applied to a letter of "a".."z" only
rotate_ascii_alpha_phono(ch, shift) ==
    IF is_ascii_upper(ch)
    THEN LET low == to_lower_ascii(ch)
         IN  IF In(low, VOW_LO) THEN to_upper_ascii(rotate_in_set_allow_zero(VOW_LO, low, shift))
             ELSE IF In(low, CON_LO) THEN to_upper_ascii(rotate_in_set_allow_zero(CON_LO, low, shift))
             ELSE ch
    ELSE IF is_ascii_lower(ch)
    THEN IF In(ch, VOW_LO) THEN rotate_in_set_allow_zero(VOW_LO, ch, shift)
         ELSE IF In(ch, CON_LO) THEN rotate_in_set_allow_zero(CON_LO, ch, shift)
         ELSE ch
    ELSE ch

\* one scalar c that is neither separator nor stable mark: lines 372-406
JpScalar(c, shift, direction) ==
    IF is_ascii_upper(c) \/ is_ascii_lower(c) THEN rotate_ascii_alpha_phono(c, shift)
    ELSE IF direction > 0 /\ is_digit(c)
    THEN LET d   == c - 48
             eff == effective_shift(shift, 10)
         IN  65296 + ((d + eff + 10) % 10)
    ELSE IF direction > 0 /\ is_fullwidth_digit(c)
    THEN LET d   == c - 65296
             eff == effective_shift(shift, 10)
         IN  65296 + ((d + eff + 10) % 10)
    ELSE IF ~(direction > 0) /\ (is_digit(c) \/ is_fullwidth_digit(c))
    THEN LET d   == IF is_digit(c) THEN c - 48 ELSE c - 65296
             eff == effective_shift(shift, 10)
         IN  48 + ((d + eff + 10) % 10)
    ELSE IF is_hiragana(c) THEN rotate_in_set_no_zero(JP_HIRA, c, shift)
    ELSE IF is_katakana(c) THEN rotate_in_set_no_zero(JP_KATA, c, shift)
    ELSE IF is_kanji(c) THEN rotate_codepoint_range_no_zero(c, shift, 19968, 40959)
    ELSE c

\* the loop of lines 361-406 from scalar i on, the cursor at kpos
RECURSIVE JpLoop(_, _, _, _, _, _)
JpLoop(s, ks, n, kpos, direction, i) ==
    IF i > Len(s) THEN <<>>
    ELSE IF is_separator(s[i]) \/ is_stable_jp_mark(s[i])
    THEN <<s[i]>> \o JpLoop(s, ks, n, kpos, direction, i + 1)
    ELSE LET shift == (ks[kpos] % 256) * direction
             k1    == kpos + 1
             k2    == IF k1 >= n THEN 0 ELSE k1
         IN  <<JpScalar(s[i], shift, direction)>>
             \o JpLoop(s, ks, n, k2, direction, i + 1)

\* _jp_native_transform
jp_native_transform(txt, pw, iters, slt, direction) ==
    IF txt = <<>> THEN txt
    ELSE LET ks == pbkdf2_keystream(pw, slt \o "|JPNative:v2|AsciiShift", iters, Len(txt) + 64)
         IN  JpLoop(txt, ks, KsLen(ks), 0, direction, 1)

kanashift_jp_encrypt(txt, pw, iters, slt, shift_punct) ==
    LET r1 == jp_native_transform(txt, pw, iters, slt, 1)
        r2 == punct_translate(r1, 1)
    IN  IF shift_punct THEN punct_shift_apply_jp(r2, pw, iters, slt, 1) ELSE r2

kanashift_jp_decrypt(obfuscated, pw, iters, slt, shift_punct) ==
    LET s1 == IF shift_punct
              THEN punct_shift_apply_jp(obfuscated, pw, iters, slt, -1)
              ELSE obfuscated
        s2 == punct_translate(s1, -1)
    IN  jp_native_transform(s2, pw, iters, slt, -1)

\* ---------------------------------------------------------------------
\* KT token verification of the kana families (kanashift.py 430-637)
\* ---------------------------------------------------------------------

\* is_token_sep of kanashift.py: the ASCII separators, then U+3000 and the
\* fullwidth and CJK marks
TOKEN_SEPS_JP ==
    {32, 12288, 45, 39, 46, 44, 33, 63, 58, 59,
     12290, 12289, 65281, 65311, 65306, 65307, 12539,
     12300, 12301, 12302, 12303, 65288, 65289, 65339, 65341, 65371, 65373,
     9, 10, 13}

is_token_sep_jp(ch) == ch \in TOKEN_SEPS_JP

is_all_digits_str_anywidth(s) ==
    s # <<>> /\ \A i \in 1..Len(s) : is_digit(s[i]) \/ is_fullwidth_digit(s[i])

\* "さしすせそたちつてとなにぬねのはひふへほま"
KANA_CHK == <<12373, 12375, 12377, 12379, 12381, 12383, 12385, 12388,
              12390, 12392, 12394, 12395, 12396, 12397, 12398, 12399,
              12402, 12405, 12408, 12411, 12414>>

\* make_token_check of kanashift.py
make_token_check_jp(kind, mac, check_chars_per_token) ==
    LET n == Max(1, check_chars_per_token)
    IN  [k \in 1..n |->
            LET b == mac[((k - 1) * 7) % 32]
            IN  IF kind = "digits" THEN 65296 + (b % 10)
                ELSE KANA_CHK[(b % Len(KANA_CHK)) + 1]]

\* token_digest of kanashift.py
token_digest_jp(pw, slt, iters, token_index, token_plain, domain) ==
    hmac_sha256_bytes(pw, <<domain, slt, iters, token_index, token_plain>>)

TOK_DOMAIN_SKIN == "KanaShiftTok:v2"

TOK_DOMAIN_JP == "KanaShiftTokJP:v2"

\* norm_fn(t): norm_token_skin and norm_token_identity both return tok
NormToken(norm_fn, tok) ==
    IF norm_fn = "norm_token_skin" THEN tok
    ELSE IF norm_fn = "norm_token_identity" THEN tok
    ELSE tok

\* flush() of kanashift.py's build_plain_token_checks
PlainFlushJP(tok, tok_idx, checks, pw, slt, iters, n, domain, norm_fn) ==
    IF tok = <<>> THEN checks
    ELSE LET kind  == IF is_all_digits_str_anywidth(tok) THEN "digits" ELSE "alpha"
             tnorm == NormToken(norm_fn, tok)
             mac   == token_digest_jp(pw, slt, iters, tok_idx, tnorm, domain)
         IN  Append(checks, make_token_check_jp(kind, mac, n))

RECURSIVE PlainChecksLoopJP(_, _, _, _, _, _, _, _, _, _)
PlainChecksLoopJP(plain, i, tok, checks, pw, slt, iters, n, domain, norm_fn) ==
    IF i > Len(plain)
    THEN PlainFlushJP(tok, Len(checks), checks, pw, slt, iters, n, domain, norm_fn)
    ELSE IF is_token_sep_jp(plain[i])
    THEN PlainChecksLoopJP(plain, i + 1, <<>>,
                           PlainFlushJP(tok, Len(checks), checks, pw, slt, iters, n, domain, norm_fn),
                           pw, slt, iters, n, domain, norm_fn)
    ELSE PlainChecksLoopJP(plain, i + 1, Append(tok, plain[i]), checks,
                           pw, slt, iters, n, domain, norm_fn)

\* build_plain_token_checks of kanashift.py
build_plain_token_checks_jp(plain, pw, slt, iters, check_chars_per_token, domain, norm_fn) ==
    PlainChecksLoopJP(plain, 1, <<>>, <<>>, pw, slt, iters,
                      check_chars_per_token, domain, norm_fn)

\* attach_checks_to_cipher of kanashift.py
attach_checks_to_cipher_jp(cipher, checks) ==
    AttachLoop(TOKEN_SEPS_JP, cipher, checks, 1, <<>>, 0, <<>>)

\* strip_checks_from_tagged of kanashift.py
strip_checks_from_tagged_jp(tagged, check_chars_per_token) ==
    StripLoop(TOKEN_SEPS_JP, tagged, Max(1, check_chars_per_token), 1, <<>>, <<>>, <<>>)

\* core_transform_fn(s, password, iterations, salt, direction), the function
\* being named by core_transform_fn
CoreTransform(core_transform_fn, s, pw, iters, slt, direction) ==
    IF core_transform_fn = "_skin_transform"
    THEN skin_transform(s, pw, iters, slt, direction)
    ELSE jp_native_transform(s, pw, iters, slt, direction)

\* _family_token_tagged_encrypt
family_token_tagged_encrypt(plain, pw, iters, slt, check_chars_per_token, shift_punct,
                            core_transform_fn, tok_domain, norm_fn) ==
    LET cipher == CoreTransform(core_transform_fn, plain, pw, iters, slt, 1)
        checks == build_plain_token_checks_jp(plain, pw, slt, iters,
                                              check_chars_per_token, tok_domain, norm_fn)
        out    == attach_checks_to_cipher_jp(cipher, checks)
    IN  IF out.raised THEN Raised
        ELSE LET o2 == punct_translate(out.value, 1)
             IN  IF shift_punct
                 THEN Returned(punct_shift_apply_jp(o2, pw, iters, slt, 1))
                 ELSE Returned(o2)

\* _family_token_tagged_decrypt
family_token_tagged_decrypt(tagged, pw, iters, slt, check_chars_per_token, shift_punct,
                            core_transform_fn, tok_domain, norm_fn) ==
    LET s1 == IF shift_punct THEN punct_shift_apply_jp(tagged, pw, iters, slt, -1) ELSE tagged
        s2 == punct_translate(s1, -1)
        stripped == strip_checks_from_tagged_jp(s2, check_chars_per_token)
    IN  IF stripped.none THEN VerifiedResult(FALSE, <<>>)
        ELSE LET plain    == CoreTransform(core_transform_fn, stripped.base, pw, iters, slt, -1)
                 expected == build_plain_token_checks_jp(plain, pw, slt, iters,
                                 check_chars_per_token, tok_domain, norm_fn)
             IN  IF Len(expected) # Len(stripped.given) THEN VerifiedResult(FALSE, <<>>)
                 ELSE IF \E k \in 1..Len(expected) : expected[k] # stripped.given[k]
                 THEN VerifiedResult(FALSE, <<>>)
                 ELSE VerifiedResult(TRUE, plain)

kanashift_skin_token_encrypt(txt, pw, iters, slt, check_chars_per_token, shift_punct) ==
    family_token_tagged_encrypt(txt, pw, iters, slt, check_chars_per_token, shift_punct,
                                "_skin_transform", TOK_DOMAIN_SKIN, "norm_token_skin")

kanashift_skin_token_decrypt(tagged, pw, iters, slt, check_chars_per_token, shift_punct) ==
    family_token_tagged_decrypt(tagged, pw, iters, slt, check_chars_per_token, shift_punct,
                                "_skin_transform", TOK_DOMAIN_SKIN, "norm_token_skin")

kanashift_jp_token_encrypt(txt, pw, iters, slt, check_chars_per_token, shift_punct) ==
    family_token_tagged_encrypt(txt, pw, iters, slt, check_chars_per_token, shift_punct,
                                "_jp_native_transform", TOK_DOMAIN_JP, "norm_token_identity")

kanashift_jp_token_decrypt(tagged, pw, iters, slt, check_chars_per_token, shift_punct) ==
    family_token_tagged_decrypt(tagged, pw, iters, slt, check_chars_per_token, shift_punct,
                                "_jp_native_transform", TOK_DOMAIN_JP, "norm_token_identity")

\* ---------------------------------------------------------------------
\* Inputs of the model
\* ---------------------------------------------------------------------

\* a stream of exactly Max(1, k) bytes over B: one byte for each scalar that
\* can consume one
Streams(B, k) == [1..Max(1, k) -> B]

NotSeparator(ch) == ~is_separator(ch)

\* a E z 9 a-acute U-diaeresis c-cedilla space ! inverted-? .
PhonoScalars == {97, 69, 122, 57, 225, 220, 231, 32, 33, 191, 46}

\* bytes b whose shift b+1 is 1, a multiple of 10, of 22, of 5 and 21, or 256
PhonoBytes == {0, 9, 21, 104, 255}

\* bytes for the two-element punctuation alphabets: shift 1, 2, 256
PunctBytes == {0, 1, 255}

\* ---------------------------------------------------------------------
\* Specification SpecPhono: rot500k_encrypt then rot500k_decrypt
\* ---------------------------------------------------------------------

InitPhono ==
    /\ mode = "ROT500K"
    /\ pc = "start"
    /\ password = "pw"
    /\ salt = "NameFPE:v1"
    /\ iterations = 1000
    /\ check_chars = 1
    /\ shift_punctuation \in BOOLEAN
    /\ text \in SeqsUpTo(PhonoScalars, MaxLen)
    /\ \E core \in Streams(PhonoBytes, Len(SelectSeq(text, NotSeparator))),
          pun \in Streams(PunctBytes, Len(SelectSeq(text, is_shift_punct))) :
          prf = (<<password, salt, iterations>> :> core)
                @@ (<<password, salt \o "|PunctShift:v1", iterations>> :> pun)
    /\ hm = <<>>
    /\ enc = <<>>
    /\ err = FALSE
    /\ dec = <<>>
    /\ tamper = "none"
    /\ enc2 = <<>>

Rot500kEncrypt ==
    /\ pc = "start"
    /\ enc' = rot500k_encrypt(text, password, iterations, salt, shift_punctuation)
    /\ pc' = "encoded"
    /\ UNCHANGED <<mode, enc2, text, params, oracles, err, dec, tamper>>

Rot500kDecrypt ==
    /\ pc = "encoded"
    /\ dec' = rot500k_decrypt(enc, password, iterations, salt, shift_punctuation)
    /\ pc' = "decoded"
    /\ UNCHANGED <<mode, enc2, text, params, oracles, enc, err, tamper>>

NextPhono == Rot500kEncrypt \/ Rot500kDecrypt

SpecPhono == InitPhono /\ [][NextPhono]_vars

\* C1: PhonoShift base roundtrip: whatever the text, the keystream bytes and
\* shift_punctuation, rot500k_decrypt of rot500k_encrypt's output is the text.
C1_PhonoRoundtrip == pc = "decoded" => dec = text

\* C1 witness: a decoded text whose ciphertext differs from it at a letter
\* and at a punctuation mark
C1_Witness ==
    /\ pc = "decoded"
    /\ shift_punctuation
    /\ \E i, j \in 1..Len(text) :
          /\ text[i] = 97 /\ enc[i] # 97
          /\ text[j] = 33 /\ enc[j] = 63

\* ---------------------------------------------------------------------
\* Specification SpecJp: kanashift_jp_encrypt then kanashift_jp_decrypt
\* ---------------------------------------------------------------------

\* hiragana a, last hiragana, first katakana, kanji 完, a, 5, fullwidth 1,
\* ideographic full stop, '.', '!', prolonged sound mark, space
JpScalars == {12354, 12438, 12449, 23436, 97, 53, 65297, 12290, 46, 33, 12540, 32}

\* bytes: 0, 1, and multiples of 10, 86 (hiragana) and 90 (katakana)
JpBytes == {0, 1, 10, 86, 90}

\* bytes for the JP punctuation alphabets of 2 and 3 scalars
PunctBytesJP == {0, 1, 6}

\* a scalar that is a shifted JP punctuation mark after punct_translate(+1)
BecomesShiftPunctJP(ch) == is_shift_punct_jp(MapGet(PUNCT_ENC_MAP, ch))

ConsumesJpByte(ch) == ~(is_separator(ch) \/ is_stable_jp_mark(ch))

InitJp ==
    /\ mode = "KAN500KJP"
    /\ pc = "start"
    /\ password = "pw"
    /\ salt = "NameFPE:v1"
    /\ iterations = 1000
    /\ check_chars = 1
    /\ shift_punctuation \in BOOLEAN
    /\ text \in SeqsUpTo(JpScalars, MaxLen)
    /\ \E core \in Streams(JpBytes, Len(SelectSeq(text, ConsumesJpByte))),
          pun \in Streams(PunctBytesJP, Len(SelectSeq(text, BecomesShiftPunctJP))) :
          prf = (<<password, salt \o "|JPNative:v2|AsciiShift", iterations>> :> core)
                @@ (<<password, salt \o "|PunctShiftJP:v2", iterations>> :> pun)
    /\ hm = <<>>
    /\ enc = <<>>
    /\ err = FALSE
    /\ dec = <<>>
    /\ tamper = "none"
    /\ enc2 = <<>>

KanashiftJpEncrypt ==
    /\ pc = "start"
    /\ enc' = kanashift_jp_encrypt(text, password, iterations, salt, shift_punctuation)
    /\ pc' = "encoded"
    /\ UNCHANGED <<mode, enc2, text, params, oracles, err, dec, tamper>>

KanashiftJpDecrypt ==
    /\ pc = "encoded"
    /\ dec' = kanashift_jp_decrypt(enc, password, iterations, salt, shift_punctuation)
    /\ pc' = "decoded"
    /\ UNCHANGED <<mode, enc2, text, params, oracles, enc, err, tamper>>

NextJp == KanashiftJpEncrypt \/ KanashiftJpDecrypt

SpecJp == InitJp /\ [][NextJp]_vars

\* C2: JP-native base roundtrip: whatever the text (kana, kanji, ASCII or
\* fullwidth digits, fullwidth punctuation), the keystream bytes (byte 0
\* included) and shift_punctuation, kanashift_jp_decrypt of
\* kanashift_jp_encrypt's output is the text.
C2_JpRoundtrip == pc = "decoded" => dec = text

\* ---------------------------------------------------------------------
\* Specification SpecSkin: kanashift_skin_encrypt then kanashift_skin_decrypt
\* ---------------------------------------------------------------------

\* the skin's plain domain:  a E z 5 a-acute U-diaeresis c-cedilla space . ! (
SkinScalars == {97, 69, 122, 53, 225, 220, 231, 32, 46, 33, 40}

InitSkin ==
    /\ mode = "KAN500K"
    /\ pc = "start"
    /\ password = "pw"
    /\ salt = "NameFPE:v1"
    /\ iterations = 1000
    /\ check_chars = 1
    /\ shift_punctuation \in BOOLEAN
    /\ text \in SeqsUpTo(SkinScalars, MaxLen)
    /\ \E core \in Streams(PhonoBytes, Len(SelectSeq(text, NotSeparator))),
          pun \in Streams(PunctBytesJP, Len(SelectSeq(text, BecomesShiftPunctJP))) :
          prf = (<<password, salt, iterations>> :> core)
                @@ (<<password, salt \o "|PunctShiftJP:v2", iterations>> :> pun)
    /\ hm = <<>>
    /\ enc = <<>>
    /\ err = FALSE
    /\ dec = <<>>
    /\ tamper = "none"
    /\ enc2 = <<>>

KanashiftSkinEncrypt ==
    /\ pc = "start"
    /\ enc' = kanashift_skin_encrypt(text, password, iterations, salt, shift_punctuation)
    /\ pc' = "encoded"
    /\ UNCHANGED <<mode, enc2, text, params, oracles, err, dec, tamper>>

KanashiftSkinDecrypt ==
    /\ pc = "encoded"
    /\ dec' = kanashift_skin_decrypt(enc, password, iterations, salt, shift_punctuation)
    /\ pc' = "decoded"
    /\ UNCHANGED <<mode, enc2, text, params, oracles, enc, err, tamper>>

NextSkin == KanashiftSkinEncrypt \/ KanashiftSkinDecrypt

SpecSkin == InitSkin /\ [][NextSkin]_vars

\* C3: Kana-skin base roundtrip: whatever the text, the bytes of the core
\* stream and of the JP-punctuation stream and shift_punctuation,
\* kanashift_skin_decrypt of kanashift_skin_encrypt's output is the text.
C3_SkinRoundtrip == pc = "decoded" => dec = text

\* ---------------------------------------------------------------------
\* Specification SpecKT: rot500k_token_tagged then rot500k_token_tagged_decrypt
\* ---------------------------------------------------------------------

\* a B 5 space . !
KtScalars == {97, 66, 53, 32, 46, 33}

\* core bytes of the verified-mode specifications: shift 1 and shift 105
KtBytes == {0, 104}

\* punctuation bytes of the verified-mode specifications
KtPunctBytes == {0, 1}

\* seed bytes of the HMAC oracle
HmBytes == {0, 20}

\* check_chars values: 0 is clamped to 1
KtCheckChars == {0, 1, 2}

InitKT ==
    /\ mode = "ROT500KT"
    /\ pc = "start"
    /\ password = "pw"
    /\ salt = "NameFPE:v1"
    /\ iterations = 1000
    /\ check_chars \in KtCheckChars
    /\ shift_punctuation \in BOOLEAN
    /\ text \in SeqsUpTo(KtScalars, MaxTagLen)
    /\ \E core \in Streams(KtBytes, Len(SelectSeq(text, NotSeparator))),
          pun \in Streams(KtPunctBytes, Len(SelectSeq(text, is_shift_punct))) :
          prf = (<<password, salt, iterations>> :> core)
                @@ (<<password, salt \o "|PunctShift:v1", iterations>> :> pun)
    /\ \E seed \in Streams(HmBytes, 1) :
          hm = (<<password, "PhonoShiftTok:v1", salt, iterations>> :> seed)
    /\ enc = <<>>
    /\ err = FALSE
    /\ dec = VerifiedResult(FALSE, <<>>)
    /\ tamper = "none"
    /\ enc2 = <<>>

Rot500kTokenTagged ==
    /\ pc = "start"
    /\ LET r == rot500k_token_tagged(text, password, iterations, salt,
                                     check_chars, shift_punctuation)
       IN  /\ enc' = r.value
           /\ err' = r.raised
    /\ pc' = "encoded"
    /\ UNCHANGED <<mode, enc2, text, params, oracles, dec, tamper>>

Rot500kTokenTaggedDecrypt ==
    /\ pc \in {"encoded", "tampered"}
    /\ ~err
    /\ dec' = rot500k_token_tagged_decrypt(enc, password, iterations, salt,
                                           check_chars, shift_punctuation)
    /\ pc' = "decoded"
    /\ UNCHANGED <<mode, enc2, text, params, oracles, enc, err, tamper>>

NextKT == Rot500kTokenTagged \/ Rot500kTokenTaggedDecrypt

SpecKT == InitKT /\ [][NextKT]_vars

\* C4: PhonoShift KT roundtrip: whatever the plaintext (empty and
\* separator-only included), check_chars, shift_punctuation, keystream and
\* HMAC bytes, rot500k_token_tagged_decrypt of rot500k_token_tagged's output
\* is (ok = true, value = the plaintext).
C4_KtRoundtrip ==
    pc = "decoded" => (~err /\ dec = VerifiedResult(TRUE, text))

\* C4 witness: a two-token plaintext with a separator between the tokens was
\* tagged (the output is longer than the plaintext) and decoded
C4_Witness ==
    /\ pc = "decoded"
    /\ Len(text) = 3 /\ ~is_token_sep(text[1]) /\ is_token_sep(text[2]) /\ ~is_token_sep(text[3])
    /\ Len(enc) = Len(text) + 2 * Max(1, check_chars)
    /\ dec.ok

\* ---------------------------------------------------------------------
\* Specification SpecKanaKT: kanashift_{skin,jp}_token_encrypt, then the
\* matching kanashift_{skin,jp}_token_decrypt
\* ---------------------------------------------------------------------

\* a 5 space . kanji 完, ideographic full stop
KanaKtScalars == {97, 53, 32, 46, 23436, 12290}

\* the salt of the core stream of a kana mode
CoreSalt(m, slt) ==
    IF m \in {"KAN500KJP", "KAN500KJPT"} THEN slt \o "|JPNative:v2|AsciiShift" ELSE slt

\* the scalars that read a byte of the core stream of a kana mode
CoreReaders(m, t) ==
    IF m \in {"KAN500KJP", "KAN500KJPT"} THEN SelectSeq(t, ConsumesJpByte)
    ELSE SelectSeq(t, NotSeparator)

InitKanaKT ==
    /\ mode \in {"KAN500KT", "KAN500KJPT"}
    /\ pc = "start"
    /\ password = "pw"
    /\ salt = "NameFPE:v1"
    /\ iterations = 1000
    /\ check_chars \in {1, 2}
    /\ shift_punctuation \in BOOLEAN
    /\ text \in SeqsUpTo(KanaKtScalars, MaxTagLen)
    /\ \E core \in Streams(KtBytes, Len(CoreReaders(mode, text))),
          pun \in Streams(KtPunctBytes, Len(SelectSeq(text, BecomesShiftPunctJP))) :
          prf = (<<password, CoreSalt(mode, salt), iterations>> :> core)
                @@ (<<password, salt \o "|PunctShiftJP:v2", iterations>> :> pun)
    /\ \E seed \in Streams(HmBytes, 1) :
          hm = (<<password, TOK_DOMAIN_SKIN, salt, iterations>> :> seed)
               @@ (<<password, TOK_DOMAIN_JP, salt, iterations>> :> seed)
    /\ enc = <<>>
    /\ err = FALSE
    /\ dec = VerifiedResult(FALSE, <<>>)
    /\ tamper = "none"
    /\ enc2 = <<>>

KanashiftSkinTokenEncrypt ==
    /\ pc = "start"
    /\ mode = "KAN500KT"
    /\ LET r == kanashift_skin_token_encrypt(text, password, iterations, salt,
                                             check_chars, shift_punctuation)
       IN  /\ enc' = r.value
           /\ err' = r.raised
    /\ pc' = "encoded"
    /\ UNCHANGED <<mode, enc2, text, params, oracles, dec, tamper>>

KanashiftSkinTokenDecrypt ==
    /\ pc = "encoded"
    /\ mode = "KAN500KT"
    /\ ~err
    /\ dec' = kanashift_skin_token_decrypt(enc, password, iterations, salt,
                                           check_chars, shift_punctuation)
    /\ pc' = "decoded"
    /\ UNCHANGED <<mode, enc2, text, params, oracles, enc, err, tamper>>

KanashiftJpTokenEncrypt ==
    /\ pc = "start"
    /\ mode = "KAN500KJPT"
    /\ LET r == kanashift_jp_token_encrypt(text, password, iterations, salt,
                                           check_chars, shift_punctuation)
       IN  /\ enc' = r.value
           /\ err' = r.raised
    /\ pc' = "encoded"
    /\ UNCHANGED <<mode, enc2, text, params, oracles, dec, tamper>>

KanashiftJpTokenDecrypt ==
    /\ pc = "encoded"
    /\ mode = "KAN500KJPT"
    /\ ~err
    /\ dec' = kanashift_jp_token_decrypt(enc, password, iterations, salt,
                                         check_chars, shift_punctuation)
    /\ pc' = "decoded"
    /\ UNCHANGED <<mode, enc2, text, params, oracles, enc, err, tamper>>

NextKanaKT ==
    \/ KanashiftSkinTokenEncrypt
    \/ KanashiftSkinTokenDecrypt
    \/ KanashiftJpTokenEncrypt
    \/ KanashiftJpTokenDecrypt

SpecKanaKT == InitKanaKT /\ [][NextKanaKT]_vars

\* C5: Kana-family KT roundtrip: for both kana families, whatever the
\* plaintext and the parameters, the token decoder applied to the token
\* encoder's output returns (ok = true, value = the plaintext).
C5_KanaKtRoundtrip ==
    pc = "decoded" => (dec.ok /\ dec.value = text)

\* ---------------------------------------------------------------------
\* Specification SpecKTAuth: rot500k_token_tagged, then one change of the
\* decoder's parameters or of one scalar of the ciphertext, then
\* rot500k_token_tagged_decrypt
\* ---------------------------------------------------------------------

MaxAuthLen == 2

\* a 5 space !
AuthScalars == {97, 53, 32, 33}

\* b 7 - space ? : the scalar written over one scalar of the ciphertext
TamperScalars == {98, 55, 45, 32, 63}

AuthPasswords == {"pw", "pw2"}

AuthSalts == {"NameFPE:v1", "NameFPE:v2"}

AuthIterations == {1000, 1001}

\* the parameter triples the decoder can be called with: at most one of
\* password, salt, iterations differs from the encoder's
AuthKeys ==
    {<<"pw", "NameFPE:v1", 1000>>, <<"pw2", "NameFPE:v1", 1000>>,
     <<"pw", "NameFPE:v2", 1000>>, <<"pw", "NameFPE:v1", 1001>>}

InitKTAuth ==
    /\ mode = "ROT500KT"
    /\ pc = "start"
    /\ password = "pw"
    /\ salt = "NameFPE:v1"
    /\ iterations = 1000
    /\ check_chars \in {1, 2}
    /\ shift_punctuation \in BOOLEAN
    /\ text \in SeqsUpTo(AuthScalars, MaxAuthLen)
    /\ \E core \in Streams(KtBytes, Len(SelectSeq(text, NotSeparator))),
          other \in Streams(KtBytes, 1),
          pun \in Streams(KtPunctBytes, Len(SelectSeq(text, is_shift_punct))) :
          prf = [k \in {<<key[1], key[2], key[3]>> : key \in AuthKeys}
                       \cup {<<key[1], key[2] \o "|PunctShift:v1", key[3]>> : key \in AuthKeys} |->
                    IF k = <<"pw", "NameFPE:v1", 1000>> THEN core
                    ELSE IF k \in {<<key[1], key[2], key[3]>> : key \in AuthKeys} THEN other
                    ELSE pun]
    /\ \E seed \in Streams(HmBytes, 1), seed2 \in Streams(HmBytes, 1) :
          hm = [k \in {<<key[1], "PhonoShiftTok:v1", key[2], key[3]>> : key \in AuthKeys} |->
                    IF k = <<"pw", "PhonoShiftTok:v1", "NameFPE:v1", 1000>> THEN seed ELSE seed2]
    /\ enc = <<>>
    /\ err = FALSE
    /\ dec = VerifiedResult(FALSE, <<>>)
    /\ tamper = "none"
    /\ enc2 = <<>>

\* the decoder is given another password
TamperPassword ==
    /\ pc = "encoded"
    /\ ~err
    /\ password' \in AuthPasswords \ {password}
    /\ tamper' = "password"
    /\ pc' = "tampered"
    /\ UNCHANGED <<mode, enc2, text, salt, iterations, check_chars, shift_punctuation,
                   oracles, enc, err, dec>>

\* the decoder is given another salt
TamperSalt ==
    /\ pc = "encoded"
    /\ ~err
    /\ salt' \in AuthSalts \ {salt}
    /\ tamper' = "salt"
    /\ pc' = "tampered"
    /\ UNCHANGED <<mode, enc2, text, password, iterations, check_chars, shift_punctuation,
                   oracles, enc, err, dec>>

\* the decoder is given another iteration count
TamperIterations ==
    /\ pc = "encoded"
    /\ ~err
    /\ iterations' \in AuthIterations \ {iterations}
    /\ tamper' = "iterations"
    /\ pc' = "tampered"
    /\ UNCHANGED <<mode, enc2, text, password, salt, check_chars, shift_punctuation,
                   oracles, enc, err, dec>>

\* the decoder is given another check_chars_per_token
TamperCheckChars ==
    /\ pc = "encoded"
    /\ ~err
    /\ check_chars' \in {1, 2} \ {check_chars}
    /\ tamper' = "check_chars"
    /\ pc' = "tampered"
    /\ UNCHANGED <<mode, enc2, text, password, salt, iterations, shift_punctuation,
                   oracles, enc, err, dec>>

\* one scalar of the ciphertext is replaced by a different scalar
TamperScalar ==
    /\ pc = "encoded"
    /\ ~err
    /\ \E i \in 1..Len(enc), c \in TamperScalars :
          /\ c # enc[i]
          /\ enc' = [enc EXCEPT ![i] = c]
    /\ tamper' = "scalar"
    /\ pc' = "tampered"
    /\ UNCHANGED <<mode, enc2, text, params, oracles, err, dec>>

NextKTAuth ==
    \/ Rot500kTokenTagged
    \/ TamperPassword
    \/ TamperSalt
    \/ TamperIterations
    \/ TamperCheckChars
    \/ TamperScalar
    \/ Rot500kTokenTaggedDecrypt

SpecKTAuth == InitKTAuth /\ [][NextKTAuth]_vars

\* C6: KT authenticity: when the decoder is called with exactly one of
\* password, salt, iterations, N changed, or with one scalar of the
\* ciphertext altered, rot500k_token_tagged_decrypt returns (false, "").
C6_KtAuthenticity ==
    (pc = "decoded" /\ tamper # "none") => dec = VerifiedResult(FALSE, <<>>)

\* ---------------------------------------------------------------------
\* Specification SpecKP: rot500k_prefix_tagged, then
\* rot500k_prefix_tagged_decrypt
\* ---------------------------------------------------------------------

\* a E a-acute 9 space ! ?
KpScalars == {97, 69, 225, 57, 32, 33, 63}

InitKP ==
    /\ mode = "ROT500KP"
    /\ pc = "start"
    /\ password = "pw"
    /\ salt = "NameFPE:v1"
    /\ iterations = 1000
    /\ check_chars = 1
    /\ shift_punctuation \in BOOLEAN
    /\ text \in SeqsUpTo(KpScalars, MaxLen)
    /\ \E core \in Streams(KtBytes, Len(SelectSeq(text, NotSeparator))),
          pun \in Streams(KtPunctBytes, 1 + Len(SelectSeq(text, is_shift_punct))) :
          prf = (<<password, salt, iterations>> :> core)
                @@ (<<password, salt \o "|PunctShift:v1", iterations>> :> pun)
    /\ \E seed \in Streams(HmBytes, 1) :
          hm = (<<password, ROT500K_TAG_DOMAIN, salt, iterations>> :> seed)
    /\ enc = <<>>
    /\ err = FALSE
    /\ dec = VerifiedResult(FALSE, <<>>)
    /\ tamper = "none"
    /\ enc2 = <<>>

Rot500kPrefixTagged ==
    /\ pc = "start"
    /\ enc' = rot500k_prefix_tagged(text, password, iterations, salt, shift_punctuation)
    /\ pc' = "encoded"
    /\ UNCHANGED <<mode, enc2, text, params, oracles, err, dec, tamper>>

Rot500kPrefixTaggedDecrypt ==
    /\ pc \in {"encoded", "tampered"}
    /\ dec' = rot500k_prefix_tagged_decrypt(enc, password, iterations, salt, shift_punctuation)
    /\ pc' = "decoded"
    /\ UNCHANGED <<mode, enc2, text, params, oracles, enc, err, tamper>>

NextKP == Rot500kPrefixTagged \/ Rot500kPrefixTaggedDecrypt

SpecKP == InitKP /\ [][NextKP]_vars

\* C7 as stated: PhonoShift KP roundtrip for every plaintext, the empty
\* string included: rot500k_prefix_tagged_decrypt of the output of
\* rot500k_prefix_tagged is (true, plaintext).
C7_KpRoundtripAll ==
    pc = "decoded" => dec = VerifiedResult(TRUE, text)

\* C7 amended: PhonoShift KP roundtrip for every non-empty plaintext:
\* rot500k_prefix_tagged_decrypt of the output of rot500k_prefix_tagged is
\* (true, plaintext); for the empty plaintext the decoder returns (false, "").
C7_KpRoundtrip ==
    pc = "decoded" =>
        IF text # <<>> THEN dec = VerifiedResult(TRUE, text)
        ELSE dec = VerifiedResult(FALSE, <<>>)

\* a two-scalar plaintext that starts with a mark followed by a space was
\* encoded with punctuation shifting and decoded
C7_Witness ==
    /\ pc = "decoded"
    /\ shift_punctuation
    /\ Len(text) = 2
    /\ text[1] \in {33, 63}
    /\ text[2] = 32
    /\ dec.ok

\* ---------------------------------------------------------------------
\* Specification SpecKV: rot500kv, then either rot500kv_decrypt or a
\* second rot500kv on the output
\* ---------------------------------------------------------------------

\* a B 5 - space !
KvScalars == {97, 66, 53, 45, 32, 33}

\* "abc-def", "ab-cd-ef", "hello-world's", "abc def", "hello-worlds": long
\* enough for the token mode, with and without hardening
KvLongTexts ==
    {<<97, 98, 99, 45, 100, 101, 102>>,
     <<97, 98, 45, 99, 100, 45, 101, 102>>,
     <<104, 101, 108, 108, 111, 45, 119, 111, 114, 108, 100, 39, 115>>,
     <<97, 98, 99, 32, 100, 101, 102>>,
     <<104, 101, 108, 108, 111, 45, 119, 111, 114, 108, 100, 115>>}

KvCheckChars == {1, 2, 3}

InitKV ==
    /\ mode = "ROT500KV"
    /\ pc = "start"
    /\ password = "pw"
    /\ salt = "NameFPE:v1"
    /\ iterations = 1000
    /\ check_chars \in KvCheckChars
    /\ shift_punctuation \in BOOLEAN
    /\ text \in SeqsUpTo(KvScalars, MaxLen) \cup KvLongTexts
    /\ \E core \in Streams(KtBytes, Min(2, Len(SelectSeq(text, NotSeparator)))),
          pun \in Streams(KtPunctBytes, Min(2, 1 + Len(SelectSeq(text, is_shift_punct)))) :
          prf = (<<password, salt, iterations>> :> core)
                @@ (<<password, salt \o "|PunctShift:v1", iterations>> :> pun)
    /\ \E seed \in Streams(HmBytes, 1) :
          hm = (<<password, "PhonoShiftTok:v1", salt, iterations>> :> seed)
               @@ (<<password, ROT500K_TAG_DOMAIN, salt, iterations>> :> seed)
    /\ enc = <<>>
    /\ err = FALSE
    /\ dec = VerifiedResult(FALSE, <<>>)
    /\ tamper = "none"
    /\ enc2 = <<>>

Rot500kv ==
    /\ pc = "start"
    /\ LET r == rot500kv(text, password, iterations, salt, check_chars, shift_punctuation)
       IN  /\ enc' = r.value
           /\ err' = r.raised
    /\ pc' = "encoded"
    /\ UNCHANGED <<mode, enc2, text, params, oracles, dec, tamper>>

Rot500kvDecrypt ==
    /\ pc = "encoded"
    /\ ~err
    /\ dec' = rot500kv_decrypt(enc, password, iterations, salt, check_chars, shift_punctuation)
    /\ pc' = "decoded"
    /\ UNCHANGED <<mode, enc2, text, params, oracles, enc, err, tamper>>

\* rot500kv applied to its own output
Rot500kvAgain ==
    /\ pc = "encoded"
    /\ ~err
    /\ LET r == rot500kv(enc, password, iterations, salt, check_chars, shift_punctuation)
       IN  /\ enc2' = r.value
           /\ err' = r.raised
    /\ pc' = "reencoded"
    /\ UNCHANGED <<mode, text, params, oracles, enc, dec, tamper>>

NextKV == Rot500kv \/ Rot500kvDecrypt \/ Rot500kvAgain

SpecKV == InitKV /\ [][NextKV]_vars

\* C8: KV recoverability: when rot500kv encrypted the plaintext (it did not
\* return through the double-encryption guard), rot500kv_decrypt called with
\* the caller's own N returns (true, plaintext), also when adaptive hardening
\* raised the effective check length above N.
C8_KvRecoverable ==
    (pc = "decoded"
        /\ ~RefusesDoubleEncrypt(text, password, iterations, salt, check_chars,
                                 shift_punctuation))
    => dec = VerifiedResult(TRUE, text)

\* C9: KV idempotence guard: when the output c of rot500kv looks like a
\* cipher to looks_like_rot500k_cipher(c, N), a second rot500kv on c returns
\* the plaintext instead of encrypting again.
C9_KvIdempotent ==
    (pc = "reencoded" /\ looks_like_rot500k_cipher(enc, check_chars))
    => (~err /\ enc2 = text)

\* ---------------------------------------------------------------------
\* Specification SpecDecode: each verified decoder applied to an arbitrary
\* input string
\* ---------------------------------------------------------------------

MaxDecLen == 3

\* b 5 space ! hiragana-sa fullwidth-5
DecodeScalars == {98, 53, 32, 33, 12373, 65301}

VerifiedModes == {"ROT500KT", "ROT500KP", "ROT500KV", "KAN500KT", "KAN500KJPT"}

InitDecode ==
    /\ mode \in VerifiedModes
    /\ pc = "received"
    /\ password = "pw"
    /\ salt = "NameFPE:v1"
    /\ iterations = 1000
    /\ check_chars \in {1, 2}
    /\ shift_punctuation \in BOOLEAN
    /\ text = <<>>
    /\ \E core \in Streams(KtBytes, 1), pun \in Streams(KtPunctBytes, 1) :
          prf = (<<password, salt, iterations>> :> core)
                @@ (<<password, salt \o "|PunctShift:v1", iterations>> :> pun)
                @@ (<<password, salt \o "|JPNative:v2|AsciiShift", iterations>> :> core)
                @@ (<<password, salt \o "|PunctShiftJP:v2", iterations>> :> pun)
    /\ \E seed \in Streams(HmBytes, 1) :
          hm = (<<password, "PhonoShiftTok:v1", salt, iterations>> :> seed)
               @@ (<<password, ROT500K_TAG_DOMAIN, salt, iterations>> :> seed)
               @@ (<<password, TOK_DOMAIN_SKIN, salt, iterations>> :> seed)
               @@ (<<password, TOK_DOMAIN_JP, salt, iterations>> :> seed)
    /\ enc \in SeqsUpTo(DecodeScalars, MaxDecLen)
    /\ err = FALSE
    /\ dec = VerifiedResult(FALSE, <<>>)
    /\ tamper = "none"
    /\ enc2 = <<>>

DecodeTokenTagged ==
    /\ pc = "received"
    /\ mode = "ROT500KT"
    /\ dec' = rot500k_token_tagged_decrypt(enc, password, iterations, salt,
                                           check_chars, shift_punctuation)
    /\ pc' = "decoded"
    /\ UNCHANGED <<mode, enc2, text, params, oracles, enc, err, tamper>>

DecodePrefixTagged ==
    /\ pc = "received"
    /\ mode = "ROT500KP"
    /\ dec' = rot500k_prefix_tagged_decrypt(enc, password, iterations, salt, shift_punctuation)
    /\ pc' = "decoded"
    /\ UNCHANGED <<mode, enc2, text, params, oracles, enc, err, tamper>>

DecodeKV ==
    /\ pc = "received"
    /\ mode = "ROT500KV"
    /\ dec' = rot500kv_decrypt(enc, password, iterations, salt, check_chars, shift_punctuation)
    /\ pc' = "decoded"
    /\ UNCHANGED <<mode, enc2, text, params, oracles, enc, err, tamper>>

DecodeSkinToken ==
    /\ pc = "received"
    /\ mode = "KAN500KT"
    /\ dec' = kanashift_skin_token_decrypt(enc, password, iterations, salt,
                                           check_chars, shift_punctuation)
    /\ pc' = "decoded"
    /\ UNCHANGED <<mode, enc2, text, params, oracles, enc, err, tamper>>

DecodeJpToken ==
    /\ pc = "received"
    /\ mode = "KAN500KJPT"
    /\ dec' = kanashift_jp_token_decrypt(enc, password, iterations, salt,
                                         check_chars, shift_punctuation)
    /\ pc' = "decoded"
    /\ UNCHANGED <<mode, enc2, text, params, oracles, enc, err, tamper>>

NextDecode ==
    \/ DecodeTokenTagged
    \/ DecodePrefixTagged
    \/ DecodeKV
    \/ DecodeSkinToken
    \/ DecodeJpToken

SpecDecode == InitDecode /\ [][NextDecode]_vars

\* C10: every verified decoder returns value = "" whenever ok = false,
\* whatever the input string and the parameters: every failure cause
\* collapses to (false, "").
C10_FailureIsEmpty ==
    (pc = "decoded" /\ ~dec.ok) => dec.value = <<>>

\* the token decoder stripped the checks of every token, decrypted the rest
\* and then found a check that did not match
C10_Witness ==
    /\ pc = "decoded"
    /\ mode = "ROT500KT"
    /\ ~shift_punctuation
    /\ ~strip_checks_from_tagged(enc, check_chars).none
    /\ strip_checks_from_tagged(enc, check_chars).base # <<>>
    /\ ~dec.ok

\* ---------------------------------------------------------------------
\* Specification SpecBase: the base mode of each family: rot500k_encrypt,
\* kanashift_skin_encrypt or kanashift_jp_encrypt, then the matching decrypt
\* ---------------------------------------------------------------------

MaxBaseLen == 2

BaseModes == {"ROT500K", "KAN500K", "KAN500KJP"}

\* Latin families: a Z 9 a-acute c-cedilla space - ! .
\* JP-native: hiragana a, katakana vo (the last of JP_KATA), kanji, a, 9,
\* the marks U+30FC and U+309D, space, ideographic full stop, !
BaseScalars(m) ==
    IF m = "KAN500KJP"
    THEN {12354, 12538, 23436, 97, 57, 12540, 12445, 32, 12290, 33}
    ELSE {97, 90, 57, 225, 231, 32, 45, 33, 46}

BaseBytes == {0, 9, 255}

BasePunctBytes == {0, 1}

\* the salt of the punctuation stream of a mode
PunctSalt(m, slt) ==
    IF m = "ROT500K" THEN slt \o "|PunctShift:v1" ELSE slt \o "|PunctShiftJP:v2"

\* the scalars that read a byte of the punctuation stream of a mode
PunctReaders(m, t) ==
    IF m = "ROT500K" THEN SelectSeq(t, is_shift_punct)
    ELSE SelectSeq(t, BecomesShiftPunctJP)

InitBase ==
    /\ mode \in BaseModes
    /\ pc = "start"
    /\ password = "pw"
    /\ salt = "NameFPE:v1"
    /\ iterations = 1000
    /\ check_chars = 1
    /\ shift_punctuation \in BOOLEAN
    /\ text \in SeqsUpTo(BaseScalars(mode), MaxBaseLen)
    /\ \E core \in Streams(BaseBytes, Len(CoreReaders(mode, text))),
          pun \in Streams(BasePunctBytes, Len(PunctReaders(mode, text))) :
          prf = (<<password, CoreSalt(mode, salt), iterations>> :> core)
                @@ (<<password, PunctSalt(mode, salt), iterations>> :> pun)
    /\ hm = <<>>
    /\ enc = <<>>
    /\ err = FALSE
    /\ dec = <<>>
    /\ tamper = "none"
    /\ enc2 = <<>>

NextBase ==
    \/ (mode = "ROT500K" /\ Rot500kEncrypt)
    \/ (mode = "ROT500K" /\ Rot500kDecrypt)
    \/ (mode = "KAN500K" /\ KanashiftSkinEncrypt)
    \/ (mode = "KAN500K" /\ KanashiftSkinDecrypt)
    \/ (mode = "KAN500KJP" /\ KanashiftJpEncrypt)
    \/ (mode = "KAN500KJP" /\ KanashiftJpDecrypt)

SpecBase == InitBase /\ [][NextBase]_vars

\* C11: length invariance of the base modes: the output of rot500k_encrypt,
\* kanashift_skin_encrypt and kanashift_jp_encrypt has as many scalars as the
\* input, and so has the output of the matching decrypt function.
C11_LengthInvariant ==
    /\ pc \in {"encoded", "decoded"} => Len(enc) = Len(text)
    /\ pc = "decoded" => Len(dec) = Len(enc)

\* a two-scalar text with a digit and a translated mark went through the
\* skin family's encrypt and decrypt with punctuation shifting
C11_Witness ==
    /\ pc = "decoded"
    /\ mode = "KAN500K"
    /\ shift_punctuation
    /\ text = <<57, 46>>
    /\ enc[1] # 57
    /\ Len(dec) = 2

\* the base encoder of mode m
BaseEncrypt(m, t, pw, iters, slt, shift_punct) ==
    IF m = "ROT500K" THEN rot500k_encrypt(t, pw, iters, slt, shift_punct)
    ELSE IF m = "KAN500K" THEN kanashift_skin_encrypt(t, pw, iters, slt, shift_punct)
    ELSE kanashift_jp_encrypt(t, pw, iters, slt, shift_punct)

\* out holds a separator exactly where inp holds that same separator
SameSeparators(inp, out) ==
    /\ Len(out) = Len(inp)
    /\ \A i \in 1..Len(inp) :
          (is_separator(out[i]) \/ is_separator(inp[i])) => out[i] = inp[i]

StableMarks == {12540, 12293, 12445, 12446, 12541, 12542}

NotStableMark(ch) == ch \notin StableMarks

\* out holds a stable mark exactly where inp holds that same mark
SameMarks(inp, out) ==
    /\ Len(out) = Len(inp)
    /\ \A i \in 1..Len(inp) :
          (out[i] \in StableMarks \/ inp[i] \in StableMarks) => out[i] = inp[i]

Range(s) == {s[i] : i \in 1..Len(s)}

\* "A".."Z", "a".."z", "0".."9", the accented vowels, the cedillas
PhonoAlphabet ==
    (65..90) \cup (97..122) \cup (48..57)
    \cup Range(VOW_LO_PT) \cup Range(VOW_UP_PT) \cup Range(CON_LO_PT) \cup Range(CON_UP_PT)

\* ks[kpos], a byte
KeystreamBytes == 0..255

InitScalar ==
    /\ mode = "ROT500K"
    /\ pc = "start"
    /\ password = "pw"
    /\ salt = "NameFPE:v1"
    /\ iterations = 1000
    /\ check_chars = 1
    /\ shift_punctuation = FALSE
    /\ \E c \in PhonoAlphabet : text = <<c>>
    /\ \E b \in KeystreamBytes : prf = (<<password, salt, iterations>> :> <<b>>)
    /\ hm = <<>>
    /\ enc = <<>>
    /\ err = FALSE
    /\ dec = <<>>
    /\ tamper = "none"
    /\ enc2 = <<>>

\* transform_name_name_like_fpe(..., +1), as rot500k_encrypt calls it
TransformForward ==
    /\ pc = "start"
    /\ enc' = transform_name_name_like_fpe(text, password, iterations, salt, 1)
    /\ pc' = "forward"
    /\ UNCHANGED <<mode, enc2, text, params, oracles, err, dec, tamper>>

\* transform_name_name_like_fpe(..., -1), as rot500k_decrypt calls it
TransformBackward ==
    /\ pc = "start"
    /\ dec' = transform_name_name_like_fpe(text, password, iterations, salt, -1)
    /\ pc' = "backward"
    /\ UNCHANGED <<mode, enc2, text, params, oracles, enc, err, tamper>>

NextScalar == TransformForward \/ TransformBackward

SpecScalar == InitScalar /\ [][NextScalar]_vars

\* the class of a scalar: vowel or consonant with its case, digit, accented
\* vowel with its case, cedilla with its case
PhonoClass(ch) ==
    IF ch \in Range(VOW_LO) THEN "vowel_lo"
    ELSE IF ch \in {c - 32 : c \in Range(VOW_LO)} THEN "vowel_up"
    ELSE IF ch \in Range(CON_LO) THEN "consonant_lo"
    ELSE IF ch \in {c - 32 : c \in Range(CON_LO)} THEN "consonant_up"
    ELSE IF ch \in 48..57 THEN "digit"
    ELSE IF ch \in Range(VOW_LO_PT) THEN "accented_lo"
    ELSE IF ch \in Range(VOW_UP_PT) THEN "accented_up"
    ELSE IF ch = 231 THEN "cedilla_lo"
    ELSE IF ch = 199 THEN "cedilla_up"
    ELSE "other"

\* C14: class preservation in PhonoShift, both directions, every keystream
\* byte: an ASCII vowel maps to an ASCII vowel of the same case, an ASCII
\* consonant to an ASCII consonant of the same case, a digit to a digit, an
\* accented vowel to an accented vowel of the same case, and the cedillas
\* map to themselves.
C14_ClassPreserved ==
    /\ pc = "forward" =>
          /\ Len(enc) = 1
          /\ PhonoClass(enc[1]) = PhonoClass(text[1])
          /\ PhonoClass(enc[1]) # "other"
    /\ pc = "backward" =>
          /\ Len(dec) = 1
          /\ PhonoClass(dec[1]) = PhonoClass(text[1])
          /\ PhonoClass(dec[1]) # "other"

\* the uppercase consonant Z was rotated backward, with a shift that is a
\* multiple of 21, to another uppercase consonant
C14_Witness ==
    /\ pc = "backward"
    /\ text = <<90>>
    /\ prf[<<password, salt, iterations>>] = <<20>>
    /\ dec = <<89>>

\* ---------------------------------------------------------------------------
\* Script of the kana-skin output (SpecSkin)
\* ---------------------------------------------------------------------------

\* Unicode blocks: hiragana U+3040..U+309F, katakana U+30A0..U+30FF
IsHiraganaBlock(c) == 12352 <= c /\ c <= 12447

IsKatakanaBlock(c) == 12448 <= c /\ c <= 12543

\* fullwidth forms U+FF01..U+FF5E without the fullwidth digits and letters,
\* and the ideographic comma and full stop U+3001, U+3002
IsFullwidthPunct(c) ==
    \/ c \in {12289, 12290}
    \/ c \in (65281..65295) \cup (65306..65312) \cup (65339..65344) \cup (65371..65374)

IsLowerLetter(c) == is_ascii_lower(c) \/ Find(P_VOW_LO_PT, c) >= 0 \/ c = 231

IsUpperLetter(c) == is_ascii_upper(c) \/ Find(P_VOW_UP_PT, c) >= 0 \/ c = 199

\* C15: every scalar of kanashift_skin_encrypt's output is hiragana, katakana,
\* a fullwidth digit, fullwidth punctuation or a separator; a lowercase letter
\* becomes a hiragana-block scalar and an uppercase letter a katakana-block one.
C15_SkinOutputScript ==
    pc = "encoded" =>
        \A i \in 1..Len(enc) :
            /\ \/ IsHiraganaBlock(enc[i])
               \/ IsKatakanaBlock(enc[i])
               \/ is_fullwidth_digit(enc[i])
               \/ IsFullwidthPunct(enc[i])
               \/ is_separator(enc[i])
            /\ i <= Len(text) /\ IsLowerLetter(text[i]) => IsHiraganaBlock(enc[i])
            /\ i <= Len(text) /\ IsUpperLetter(text[i]) => IsKatakanaBlock(enc[i])

\* an uppercase vowel and an accented lowercase vowel have been encoded
C15_Witness ==
    /\ pc = "encoded"
    /\ text = <<69, 225>>
    /\ IsKatakanaBlock(enc[1])
    /\ IsHiraganaBlock(enc[2])

\* ---------------------------------------------------------------------------
\* Scalars of no alphabet and the keystream cursor (SpecBase)
\* ---------------------------------------------------------------------------

\* the core transform of mode m (phonoshift.py 71, kanashift.py 153, 352)
BaseTransform(m, t, pw, iters, slt, direction) ==
    IF m = "ROT500K" THEN transform_name_name_like_fpe(t, pw, iters, slt, direction)
    ELSE IF m = "KAN500K" THEN skin_transform(t, pw, iters, slt, direction)
    ELSE jp_native_transform(t, pw, iters, slt, direction)

\* c belongs to no alphabet the encoder of mode m rotates or maps, and is
\* neither a separator nor a stable mark
Unsupported(m, c) ==
    /\ ~is_separator(c)
    /\ IF m = "KAN500KJP"
       THEN ~(\/ is_stable_jp_mark(c)
              \/ is_ascii_upper(c) \/ is_ascii_lower(c)
              \/ is_digit(c) \/ is_fullwidth_digit(c)
              \/ is_hiragana(c) \/ is_katakana(c) \/ is_kanji(c))
       ELSE PhonoClass(c) = "other"

\* the scalars of out at the positions where inp holds a supported scalar
RECURSIVE SupportedPart(_, _, _)
SupportedPart(out, inp, m) ==
    IF inp = <<>> \/ out = <<>> THEN <<>>
    ELSE (IF Unsupported(m, Head(inp)) THEN <<>> ELSE <<Head(out)>>)
         \o SupportedPart(Tail(out), Tail(inp), m)

\* C16: in the three core transforms a scalar of no recognized alphabet is
\* emitted unchanged and leaves the keystream cursor where it was: the other
\* scalars are encoded as if the unsupported scalars were absent.
C16_UnsupportedKeepCursor ==
    pc = "encoded" =>
        LET core == BaseTransform(mode, text, password, iterations, salt, 1)
        IN  /\ \A i \in 1..Len(text) : Unsupported(mode, text[i]) => core[i] = text[i]
            /\ SupportedPart(enc, text, mode)
                  = BaseEncrypt(mode, SupportedPart(text, text, mode), password,
                                iterations, salt, shift_punctuation)

\* ---------------------------------------------------------------------------
\* Specification SpecClamp: a library encoder called with iterations and
\* check_chars as given, then with both raised to 1
\* ---------------------------------------------------------------------------

MaxClampLen == 2

\* a 5 space !
ClampScalars == {97, 53, 32, 33}

ClampModes ==
    {"ROT500K", "ROT500KT", "ROT500KP", "ROT500KV",
     "KAN500K", "KAN500KT", "KAN500KJP", "KAN500KJPT"}

\* values below 1 and the value they are said to be clamped to
ClampIterations == {-1, 0, 1}

ClampCheckChars == {-1, 0, 1}

\* the salts PBKDF2 is called with, and the domains of the HMAC messages
ClampSalts(slt) ==
    {slt, slt \o "|PunctShift:v1", slt \o "|PunctShiftJP:v2", slt \o "|JPNative:v2|AsciiShift"}

ClampDomains == {"PhonoShiftTok:v1", ROT500K_TAG_DOMAIN, TOK_DOMAIN_SKIN, TOK_DOMAIN_JP}

\* the encoder of mode m of the two libraries, its result as Returned/Raised
LibraryEncode(m, t, pw, iters, slt, cc, shift_punct) ==
    IF m = "ROT500K" THEN Returned(rot500k_encrypt(t, pw, iters, slt, shift_punct))
    ELSE IF m = "ROT500KT" THEN rot500k_token_tagged(t, pw, iters, slt, cc, shift_punct)
    ELSE IF m = "ROT500KP" THEN Returned(rot500k_prefix_tagged(t, pw, iters, slt, shift_punct))
    ELSE IF m = "ROT500KV" THEN rot500kv(t, pw, iters, slt, cc, shift_punct)
    ELSE IF m = "KAN500K" THEN Returned(kanashift_skin_encrypt(t, pw, iters, slt, shift_punct))
    ELSE IF m = "KAN500KT" THEN kanashift_skin_token_encrypt(t, pw, iters, slt, cc, shift_punct)
    ELSE IF m = "KAN500KJP" THEN Returned(kanashift_jp_encrypt(t, pw, iters, slt, shift_punct))
    ELSE kanashift_jp_token_encrypt(t, pw, iters, slt, cc, shift_punct)

InitClamp ==
    /\ mode \in ClampModes
    /\ pc = "start"
    /\ password = "pw"
    /\ salt = "NameFPE:v1"
    /\ iterations \in ClampIterations
    /\ check_chars \in ClampCheckChars
    /\ shift_punctuation \in BOOLEAN
    /\ text \in SeqsUpTo(ClampScalars, MaxClampLen)
    /\ \E core \in Streams(KtBytes, Len(SelectSeq(text, NotSeparator))),
          pun \in Streams(KtPunctBytes, 1) :
          prf = [k \in {<<password, s, 1>> : s \in ClampSalts(salt)} |->
                    IF k[2] \in {salt, CoreSalt("KAN500KJP", salt)} THEN core ELSE pun]
    /\ \E seed \in Streams(HmBytes, 1), seed1 \in Streams(HmBytes, 1) :
          hm = [k \in {<<password, d, salt, it>> : d \in ClampDomains, it \in {iterations, 1}} |->
                    IF k[4] = 1 THEN seed1 ELSE seed]
    /\ enc = <<>>
    /\ err = FALSE
    /\ dec = Returned(<<>>)
    /\ tamper = "none"
    /\ enc2 = <<>>

\* the call with iterations and check_chars as the caller gave them
CallAsGiven ==
    /\ pc = "start"
    /\ LET r == LibraryEncode(mode, text, password, iterations, salt,
                              check_chars, shift_punctuation)
       IN  /\ enc' = r.value
           /\ err' = r.raised
    /\ pc' = "called"
    /\ UNCHANGED <<mode, enc2, text, params, oracles, dec, tamper>>

\* the same call with iterations = max(1, iterations), check_chars = max(1, check_chars)
CallClamped ==
    /\ pc = "called"
    /\ LET r == LibraryEncode(mode, text, password, Max(1, iterations), salt,
                              Max(1, check_chars), shift_punctuation)
       IN  /\ enc2' = r.value
           /\ dec' = r
    /\ pc' = "compared"
    /\ UNCHANGED <<mode, text, params, oracles, enc, err, tamper>>

NextClamp == CallAsGiven \/ CallClamped

SpecClamp == InitClamp /\ [][NextClamp]_vars

\* C17: parameter clamping: a call with iterations < 1 gives exactly the
\* result of the same call with iterations = 1, a call with check_chars < 1
\* exactly the result with check_chars = 1, and no such call fails.
C17_ClampedSameResult ==
    pc = "compared" => ~err /\ ~dec.raised /\ enc = enc2

\* ---------------------------------------------------------------------------
\* Specification SpecShift: one scalar of a no-zero alphabet through
\* _jp_native_transform in direction +1, the result in direction -1
\* (shift = byte * direction, every byte 0..255)
\* ---------------------------------------------------------------------------

\* first and last scalars of JP_HIRA, JP_KATA and of the kanji range, a
\* kanji inside the range, and the digits 0 and 9
ShiftAlphabet == {12353, 12354, 12438, 12449, 12538, 19968, 23436, 40959, 48, 57}

\* set_size as the transform passes it to effective_shift for scalar c
ShiftSetSize(c) ==
    IF is_digit(c) THEN 10
    ELSE IF is_hiragana(c) THEN Len(JP_HIRA)
    ELSE IF is_katakana(c) THEN Len(JP_KATA)
    ELSE 40959 - 19968 + 1

InitShift ==
    /\ mode = "KAN500KJP"
    /\ pc = "start"
    /\ password = "pw"
    /\ salt = "NameFPE:v1"
    /\ iterations = 1000
    /\ check_chars = 1
    /\ shift_punctuation = FALSE
    /\ \E c \in ShiftAlphabet : text = <<c>>
    /\ \E b \in KeystreamBytes :
          prf = (<<password, CoreSalt(mode, salt), iterations>> :> <<b>>)
    /\ hm = <<>>
    /\ enc = <<>>
    /\ err = FALSE
    /\ dec = <<>>
    /\ tamper = "none"
    /\ enc2 = <<>>

\* _jp_native_transform(..., +1): shift = byte
JpTransformForward ==
    /\ pc = "start"
    /\ enc' = jp_native_transform(text, password, iterations, salt, 1)
    /\ pc' = "forward"
    /\ UNCHANGED <<mode, enc2, text, params, oracles, err, dec, tamper>>

\* _jp_native_transform(..., -1) on the result: shift = -byte
JpTransformBackward ==
    /\ pc = "forward"
    /\ dec' = jp_native_transform(enc, password, iterations, salt, -1)
    /\ pc' = "backward"
    /\ UNCHANGED <<mode, enc2, text, params, oracles, enc, err, tamper>>

NextShift == JpTransformForward \/ JpTransformBackward

SpecShift == InitShift /\ [][NextShift]_vars

\* C18: effective_shift is invertible under negation: for every shift (0 and
\* the nonzero multiples of n included) and every set size n >= 2,
\* effective_shift(shift, n) + effective_shift(-shift, n) is 0 modulo n, so
\* rotating by shift and then by -shift (rotate_in_set_no_zero,
\* rotate_codepoint_range_no_zero, the digit rotation) gives the scalar back.
C18_ShiftNegationInverts ==
    pc = "backward" =>
        LET sh == prf[<<password, CoreSalt(mode, salt), iterations>>][1]
            n  == ShiftSetSize(text[1])
        IN  /\ (effective_shift(sh, n) + effective_shift(-sh, n)) % n = 0
            /\ dec = text

\* C19: every keyed scalar moves in PhonoShift encode: for every keystream
\* byte 0..255 the transform in direction +1 emits, for an ASCII letter, an
\* ASCII digit or an accented vowel, a scalar different from the input scalar.
C19_KeyedScalarMoves ==
    (pc = "forward" /\ PhonoClass(text[1]) \notin {"cedilla_lo", "cedilla_up", "other"})
        => enc[1] # text[1]

\* ---------------------------------------------------------------------------
\* Alphabet pairs of _skin_transform (SpecSkin)
\* ---------------------------------------------------------------------------

\* the <<plain, cipher>> pairs map_rotate is called with (kanashift.py 229-241)
SkinPairs ==
    {<<P_VOW_LO, C_VOW_LO>>, <<P_CON_LO, C_CON_LO>>,
     <<P_VOW_UP, C_VOW_UP>>, <<P_CON_UP, C_CON_UP>>,
     <<P_VOW_LO_PT, C_ACC_LO>>, <<P_VOW_UP_PT, C_ACC_UP>>}

UniqueElements(s) == Cardinality(Range(s)) = Len(s)

\* C20: each plain/cipher alphabet pair of the skin family has equal
\* cardinality with unique elements, the accented pairs having 24 elements
\* each, so that the index mapping of the encoder reaches the whole cipher
\* alphabet.
C20_SkinPairsBijective ==
    pc = "encoded" =>
        /\ \A pr \in SkinPairs :
              /\ Len(pr[1]) = Len(pr[2])
              /\ UniqueElements(pr[1])
              /\ UniqueElements(pr[2])
        /\ Len(P_VOW_LO_PT) = 24 /\ Len(C_ACC_LO) = 24
        /\ Len(P_VOW_UP_PT) = 24 /\ Len(C_ACC_UP) = 24
        /\ \A pr \in SkinPairs : \A i \in 1..Len(text) :
              In(text[i], pr[1]) =>
                  \A y \in Range(pr[2]) : \E b \in KeystreamBytes :
                      map_rotate(pr[1], pr[2], text[i], b + 1, 1) = y

\* ---------------------------------------------------------------------------
\* Specification SpecTranslate: punct_translate(s, +1), then punct_translate
\* of the result in direction -1
\* ---------------------------------------------------------------------------

MaxTranslateLen == 3

\* ! . ( of the table keys, fullwidth ! and ideographic full stop of the table
\* values, and a letter, a space, a katakana middle dot outside the table
TranslateScalars == {33, 46, 40, 65281, 12290, 97, 32, 12539}

InitTranslate ==
    /\ mode = "KAN500K"
    /\ pc = "start"
    /\ password = "pw"
    /\ salt = "NameFPE:v1"
    /\ iterations = 1000
    /\ check_chars = 1
    /\ shift_punctuation = FALSE
    /\ text \in SeqsUpTo(TranslateScalars, MaxTranslateLen)
    /\ prf = <<>>
    /\ hm = <<>>
    /\ enc = <<>>
    /\ err = FALSE
    /\ dec = <<>>
    /\ tamper = "none"
    /\ enc2 = <<>>

\* punct_translate(s, +1), as the kana encoders call it
PunctTranslateEncode ==
    /\ pc = "start"
    /\ enc' = punct_translate(text, 1)
    /\ pc' = "translated"
    /\ UNCHANGED <<mode, enc2, text, params, oracles, err, dec, tamper>>

\* punct_translate(s, -1), as the kana decoders call it
PunctTranslateDecode ==
    /\ pc = "translated"
    /\ dec' = punct_translate(enc, -1)
    /\ pc' = "restored"
    /\ UNCHANGED <<mode, enc2, text, params, oracles, enc, err, tamper>>

NextTranslate == PunctTranslateEncode \/ PunctTranslateDecode

SpecTranslate == InitTranslate /\ [][NextTranslate]_vars

\* s holds a scalar that is a key or a value of _PUNCT_ENC_MAP
InTable(c) == \E i \in 1..Len(PUNCT_ENC_MAP) : c \in {PUNCT_ENC_MAP[i][1], PUNCT_ENC_MAP[i][2]}

\* C21: punct_translate's decode direction inverts its encode direction: for
\* every string s, punct_translate(punct_translate(s, +1), -1) = s, the
\* scalar count is unchanged and the scalars outside the table are unchanged.
C21_TranslateRoundtrip ==
    /\ pc \in {"translated", "restored"} =>
          /\ Len(enc) = Len(text)
          /\ \A i \in 1..Len(text) : ~InTable(text[i]) => enc[i] = text[i]
    /\ pc = "restored" => dec = text

\* ---------------------------------------------------------------------------
\* Mode selection of rot500kv (SpecKV)
\* ---------------------------------------------------------------------------

\* C22: KV mode selection: when rot500kv does not take the double-encryption
\* guard, with eff = max(1, N) raised to at least 2 for fewer than 12 scalars
\* and to at least 3 for fewer than 6, the output is rot500k_token_tagged
\* (plain, eff) exactly when plain has no structured delimiter, at least two
\* tokens, every token longer than eff and at least 6 scalars, and
\* rot500k_prefix_tagged(plain) otherwise; a plaintext shorter than 6 scalars
\* or holding a space is KP-encoded.
C22_KvModeSelection ==
    (pc = "encoded"
        /\ ~RefusesDoubleEncrypt(text, password, iterations, salt, check_chars,
                                 shift_punctuation))
    => LET n0    == IF check_chars < 1 THEN 1 ELSE check_chars
           n1    == IF Len(text) < 12 /\ n0 < 2 THEN 2 ELSE n0
           eff   == IF Len(text) < 6 /\ n1 < 3 THEN 3 ELSE n1
           toks  == TokenScan(text, 1, <<>>, <<>>)
           useKT == /\ \A i \in 1..Len(text) :
                          text[i] \notin {123, 125, 91, 93, 34, 92, 60, 62, 32, 61, 58}
                    /\ Len(toks) >= 2
                    /\ \A k \in 1..Len(toks) : Len(toks[k]) > eff
                    /\ Len(text) >= 6
           kt    == rot500k_token_tagged(text, password, iterations, salt, eff,
                                         shift_punctuation)
           kp    == rot500k_prefix_tagged(text, password, iterations, salt,
                                          shift_punctuation)
       IN  /\ useKT => (err = kt.raised /\ enc = kt.value)
           /\ ~useKT => (~err /\ enc = kp)
           /\ (Len(text) < 6 \/ \E i \in 1..Len(text) : text[i] = 32) => enc = kp

\* "abc-def" with N = 1: eff is hardened to 2 and the token mode is chosen,
\* two check scalars after each of the two tokens
C22_Witness ==
    /\ pc = "encoded"
    /\ text = <<97, 98, 99, 45, 100, 101, 102>>
    /\ check_chars = 1
    /\ ~err
    /\ Len(enc) = 11
    /\ enc[6] = 45

\* ---------------------------------------------------------------------------
\* Case style of the KP prefix (SpecKP)
\* ---------------------------------------------------------------------------

\* the two words of the prefix: scalars 1..6 and 8..13 of the output
PrefixLetters == {1, 2, 3, 4, 5, 6, 8, 9, 10, 11, 12, 13}

\* C23: KP prefix case style: the prefix is fully uppercase iff the plaintext
\* holds an uppercase letter and no lowercase letter, fully lowercase iff it
\* holds a lowercase letter and no uppercase letter, and title-cased
\* otherwise (no letters included); accented uppercase letters count as
\* uppercase and accented lowercase letters as lowercase.
C23_PrefixCaseStyle ==
    pc = "encoded" =>
        LET any_upper == \E i \in 1..Len(text) : IsUpperLetter(text[i])
            any_lower == \E i \in 1..Len(text) : IsLowerLetter(text[i])
        IN  IF any_upper /\ ~any_lower
            THEN \A i \in PrefixLetters : is_ascii_upper(enc[i])
            ELSE IF any_lower /\ ~any_upper
            THEN \A i \in PrefixLetters : is_ascii_lower(enc[i])
            ELSE \A i \in PrefixLetters :
                     IF i \in {1, 8} THEN is_ascii_upper(enc[i]) ELSE is_ascii_lower(enc[i])

\* ---------------------------------------------------------------------------
\* Specification SpecTotal: the KT encoder of each of the three families on
\* texts holding token separators and the last scalars of the alphabets
\* ---------------------------------------------------------------------------

MaxTotalLen == 3

TotalModes == {"ROT500KT", "KAN500KT", "KAN500KJPT"}

\* ROT500KT:   a Z 9 a-acute space . - @
\* KAN500KT:   a Z 9 a-acute c-cedilla space . (
\* KAN500KJPT: hiragana a, last katakana (U+30FA, before the middle dot),
\*             last kanji, a, 9, middle dot, space, prolonged sound mark
TotalScalars(m) ==
    IF m = "ROT500KT" THEN {97, 90, 57, 225, 32, 46, 45, 64}
    ELSE IF m = "KAN500KT" THEN {97, 90, 57, 225, 231, 32, 46, 40}
    ELSE {12354, 12538, 40959, 97, 57, 12539, 32, 12540}

\* bytes giving the shifts 0 or 1, 1 or 2, 255 or 256
TotalBytes == {0, 1, 255}

\* the token separators of the family of mode m
FamilyTokenSeps(m) == IF m = "ROT500KT" THEN TOKEN_SEPS ELSE TOKEN_SEPS_JP

\* the core transform the KT encoder of mode m runs on the plaintext
FamilyCipher(m, t, pw, iters, slt) ==
    BaseTransform(IF m = "ROT500KT" THEN "ROT500K"
                  ELSE IF m = "KAN500KT" THEN "KAN500K" ELSE "KAN500KJP",
                  t, pw, iters, slt, 1)

InitTotal ==
    /\ mode \in TotalModes
    /\ pc = "start"
    /\ password = "pw"
    /\ salt = "NameFPE:v1"
    /\ iterations = 1000
    /\ check_chars = 1
    /\ shift_punctuation \in BOOLEAN
    /\ text \in SeqsUpTo(TotalScalars(mode), MaxTotalLen)
    /\ \E core \in Streams(TotalBytes, Min(1, Len(CoreReaders(mode, text)))),
          pun \in Streams(KtPunctBytes, 1) :
          prf = (<<password, CoreSalt(mode, salt), iterations>> :> core)
                @@ (<<password, salt \o "|PunctShift:v1", iterations>> :> pun)
                @@ (<<password, salt \o "|PunctShiftJP:v2", iterations>> :> pun)
    /\ \E seed \in Streams(HmBytes, 1) :
          hm = [k \in {<<password, d, salt, iterations>> :
                          d \in {"PhonoShiftTok:v1", TOK_DOMAIN_SKIN, TOK_DOMAIN_JP}} |-> seed]
    /\ enc = <<>>
    /\ err = FALSE
    /\ dec = VerifiedResult(FALSE, <<>>)
    /\ tamper = "none"
    /\ enc2 = <<>>

NextTotal ==
    \/ (mode = "ROT500KT" /\ Rot500kTokenTagged)
    \/ KanashiftSkinTokenEncrypt
    \/ KanashiftJpTokenEncrypt

SpecTotal == InitTotal /\ [][NextTotal]_vars

\* the number of tokens of s: the maximal runs of scalars outside seps
TokenCount(s, seps) ==
    Cardinality({i \in 1..Len(s) : s[i] \notin seps /\ (i = 1 \/ s[i - 1] \in seps)})

\* C24: KT encode is total: in the three families the ciphertext of the
\* family transform has the token count of the plaintext under the family's
\* token separators (a token separator is never changed, no other scalar is
\* rotated onto one), so the encoder never raises the count-mismatch or the
\* unused-checks error.
C24_KtEncodeTotal ==
    pc = "encoded" =>
        LET seps   == FamilyTokenSeps(mode)
            cipher == FamilyCipher(mode, text, password, iterations, salt)
        IN  /\ Len(cipher) = Len(text)
            /\ \A i \in 1..Len(text) :
                  /\ text[i] \in seps => cipher[i] = text[i]
                  /\ text[i] \notin seps => cipher[i] \notin seps
            /\ TokenCount(cipher, seps) = TokenCount(text, seps)
            /\ ~err

\* the last katakana, rotated by one step, between two middle dots: the
\* encoder returned a tagged text with the check after the one token
C24_Witness ==
    /\ pc = "encoded"
    /\ mode = "KAN500KJPT"
    /\ text = <<12539, 12538, 12539>>
    /\ ~err
    /\ Len(enc) = 4
    /\ enc[2] # 12538

\* ---------------------------------------------------------------------------
\* Specification SpecDispatch: rot500k_prefix_tagged, then rot500kv_decrypt on
\* its output, the digest of the KT domain taking every residue
\* ---------------------------------------------------------------------------

MaxDispatchLen == 2

\* a E a-acute 9 space !
DispatchScalars == {97, 69, 225, 57, 32, 33}

\* check lengths shorter than, equal to and longer than a prefix word
DispatchCheckChars == {1, 2, 6, 7}

\* seed bytes of the KT digest: every index of the 21 check consonants
DispatchSeeds == 0..20

InitDispatch ==
    /\ mode = "ROT500KV"
    /\ pc = "start"
    /\ password = "pw"
    /\ salt = "NameFPE:v1"
    /\ iterations = 1000
    /\ check_chars \in DispatchCheckChars
    /\ shift_punctuation \in BOOLEAN
    /\ text \in SeqsUpTo(DispatchScalars, MaxDispatchLen)
    /\ \E core \in Streams(KtBytes, Min(1, Len(SelectSeq(text, NotSeparator)))),
          pun \in Streams({0}, 1) :
          prf = (<<password, salt, iterations>> :> core)
                @@ (<<password, salt \o "|PunctShift:v1", iterations>> :> pun)
    /\ \E seed \in Streams(HmBytes, 1), kt \in Streams(DispatchSeeds, 1) :
          hm = (<<password, ROT500K_TAG_DOMAIN, salt, iterations>> :> seed)
               @@ (<<password, "PhonoShiftTok:v1", salt, iterations>> :> kt)
    /\ enc = <<>>
    /\ err = FALSE
    /\ dec = VerifiedResult(FALSE, <<>>)
    /\ tamper = "none"
    /\ enc2 = <<>>

NextDispatch == Rot500kPrefixTagged \/ Rot500kvDecrypt

SpecDispatch == InitDispatch /\ [][NextDispatch]_vars

\* C25: KV decode dispatch is unambiguous: rot500k_token_tagged_decrypt on
\* the output of rot500k_prefix_tagged returns ok = false for every digest
\* and every check length N, so rot500kv_decrypt on a KP ciphertext returns
\* the KP decoder's result.
C25_KpNeverReadAsKt ==
    /\ pc \in {"encoded", "decoded"} =>
          ~rot500k_token_tagged_decrypt(enc, password, iterations, salt,
                                        check_chars, shift_punctuation).ok
    /\ pc = "decoded" =>
          dec = rot500k_prefix_tagged_decrypt(enc, password, iterations, salt,
                                              shift_punctuation)

\* a KP ciphertext of a two-scalar plaintext was decoded by rot500kv_decrypt
\* with N = 1 and the plaintext came back
C25_Witness ==
    /\ pc = "decoded"
    /\ check_chars = 1
    /\ Len(text) = 2
    /\ dec = VerifiedResult(TRUE, text)

\* ---------------------------------------------------------------------------
\* Specification SpecCanon: a KT or KP ciphertext, as the encoder wrote it
\* or with one scalar replaced, is decoded; an accepted plaintext is encoded
\* again with the same parameters
\* ---------------------------------------------------------------------------

MaxCanonLen == 2

\* a E 5 space !
CanonScalars == {97, 69, 53, 32, 33}

InitCanon ==
    /\ mode \in {"ROT500KT", "ROT500KP"}
    /\ pc = "start"
    /\ password = "pw"
    /\ salt = "NameFPE:v1"
    /\ iterations = 1000
    /\ check_chars \in {1, 2}
    /\ shift_punctuation \in BOOLEAN
    /\ text \in SeqsUpTo(CanonScalars, MaxCanonLen)
    /\ \E core \in Streams(KtBytes, Len(SelectSeq(text, NotSeparator))),
          pun \in Streams(KtPunctBytes, 1) :
          prf = (<<password, salt, iterations>> :> core)
                @@ (<<password, salt \o "|PunctShift:v1", iterations>> :> pun)
    /\ \E seed \in Streams(HmBytes, 1) :
          hm = (<<password, "PhonoShiftTok:v1", salt, iterations>> :> seed)
               @@ (<<password, ROT500K_TAG_DOMAIN, salt, iterations>> :> seed)
    /\ enc = <<>>
    /\ err = FALSE
    /\ dec = VerifiedResult(FALSE, <<>>)
    /\ tamper = "none"
    /\ enc2 = <<>>

\* the accepted plaintext is given to the encoder of the same mode
EncodeAccepted ==
    /\ pc = "decoded"
    /\ dec.ok
    /\ LET r == IF mode = "ROT500KT"
                THEN rot500k_token_tagged(dec.value, password, iterations, salt,
                                          check_chars, shift_punctuation)
                ELSE Returned(rot500k_prefix_tagged(dec.value, password, iterations,
                                                    salt, shift_punctuation))
       IN  /\ enc2' = r.value
           /\ err' = r.raised
    /\ pc' = "reencoded"
    /\ UNCHANGED <<mode, text, params, oracles, enc, dec, tamper>>

NextCanon ==
    \/ (mode = "ROT500KT" /\ Rot500kTokenTagged)
    \/ (mode = "ROT500KP" /\ Rot500kPrefixTagged)
    \/ TamperScalar
    \/ (mode = "ROT500KT" /\ Rot500kTokenTaggedDecrypt)
    \/ (mode = "ROT500KP" /\ Rot500kPrefixTaggedDecrypt)
    \/ EncodeAccepted

SpecCanon == InitCanon /\ [][NextCanon]_vars

\* C26: accepted PhonoShift ciphertexts are canonical: if the KT decoder
\* returns (true, p) on a string c then rot500k_token_tagged(p) is c, and if
\* the KP decoder returns (true, p) on c then rot500k_prefix_tagged(p) is c,
\* with the same parameters.
C26_AcceptedIsCanonical ==
    pc = "reencoded" => (~err /\ enc2 = enc)

\* a KT ciphertext with one scalar replaced was accepted with a plaintext
\* that is not the one encoded, and that plaintext was encoded again
C26_Witness ==
    /\ pc = "reencoded"
    /\ mode = "ROT500KT"
    /\ tamper = "scalar"
    /\ dec.ok
    /\ dec.value # text

\* ---------------------------------------------------------------------------
\* Specification SpecPunctShift: punct_shift_apply of PhonoShift on one text
\* in direction +1, in direction -1, and in direction +1 under a second
\* password
\* ---------------------------------------------------------------------------

MaxPunctLen == 2

\* ! ? inverted-? inverted-! a space
PunctShiftScalars == {33, 63, 191, 161, 97, 32}

\* second bytes of the punctuation streams
PunctSecondBytes == {0, 1, 255}

OtherPassword == "pw2"

InitPunctShift ==
    /\ mode = "ROT500K"
    /\ pc = "start"
    /\ password = "pw"
    /\ salt = "NameFPE:v1"
    /\ iterations = 1000
    /\ check_chars = 1
    /\ shift_punctuation = TRUE
    /\ text \in SeqsUpTo(PunctShiftScalars, MaxPunctLen)
    /\ \E b \in KeystreamBytes, b2 \in PunctSecondBytes :
          prf = (<<password, salt \o "|PunctShift:v1", iterations>> :> <<b, b2>>)
                @@ (<<OtherPassword, salt \o "|PunctShift:v1", iterations>> :> <<b2, b>>)
    /\ hm = <<>>
    /\ enc = <<>>
    /\ err = FALSE
    /\ dec = <<>>
    /\ tamper = "none"
    /\ enc2 = <<>>

\* punct_shift_apply(s, ..., +1), as the encoders call it
PunctShiftForward ==
    /\ pc = "start"
    /\ enc' = punct_shift_apply(text, password, iterations, salt, 1)
    /\ pc' = "forward"
    /\ UNCHANGED <<mode, enc2, text, params, oracles, err, dec, tamper>>

\* punct_shift_apply(s, ..., -1), as the decoders call it
PunctShiftBackward ==
    /\ pc = "start"
    /\ dec' = punct_shift_apply(text, password, iterations, salt, -1)
    /\ pc' = "backward"
    /\ UNCHANGED <<mode, enc2, text, params, oracles, enc, err, tamper>>

\* the run of direction +1 again, with another password
PunctShiftOtherPassword ==
    /\ pc = "forward"
    /\ enc2' = punct_shift_apply(text, OtherPassword, iterations, salt, 1)
    /\ pc' = "compared"
    /\ UNCHANGED <<mode, text, params, oracles, enc, err, dec, tamper>>

NextPunctShift == PunctShiftForward \/ PunctShiftBackward \/ PunctShiftOtherPassword

SpecPunctShift == InitPunctShift /\ [][NextPunctShift]_vars

\* s with '!' and '?' exchanged and the two inverted marks exchanged
SwapMarks(s) ==
    [i \in 1..Len(s) |->
        IF s[i] = 33 THEN 63
        ELSE IF s[i] = 63 THEN 33
        ELSE IF s[i] = 191 THEN 161
        ELSE IF s[i] = 161 THEN 191
        ELSE s[i]]

\* C27: the Latin punctuation shift does not depend on the key: whatever the
\* password's keystream and the direction, punct_shift_apply exchanges '!'
\* with '?' and the inverted '?' with the inverted '!' and leaves every other
\* scalar and every position as it is; two passwords give the same output.
C27_PunctShiftKeyless ==
    /\ pc \in {"forward", "compared"} => enc = SwapMarks(text)
    /\ pc = "backward" => dec = SwapMarks(text)
    /\ pc = "compared" => enc2 = enc

\* two marks shifted with unlike bytes under the two passwords
C27_Witness ==
    /\ pc = "compared"
    /\ text = <<33, 191>>
    /\ enc2 = <<63, 161>>
    /\ prf[<<password, salt \o "|PunctShift:v1", iterations>>] = <<0, 1>>
====
